---- MODULE Spec2Model ----
(***************************************************************************)
(* Model of the project classification engine of the records-management   *)
(* budget dashboard (src/utils/project_classifier.py).                     *)
(*                                                                         *)
(* A Python str is modelled as the sequence of its Unicode code points,    *)
(* so that lower(), strip() and the substring test `keyword in text` are   *)
(* computed character by character.  A Python dict is modelled as the      *)
(* sequence of its items when the code iterates it (insertion order is     *)
(* significant) and as a record when the code only subscripts it.          *)
(***************************************************************************)
EXTENDS Integers, Sequences, FiniteSets, TLC

(***************************************************************************)
(* ProjectClassifier.PROJECT_TYPE_KEYWORDS (ordered by priority).          *)
(***************************************************************************)
PROJECT_TYPE_KEYWORDS ==
  <<
    [name |-> "DIGITALIZATION", keywords |-> <<
        <<51204, 51088, 54868>>,  \* '전자화'
        <<46356, 51648, 53560, 54868>>,  \* '디지털화'
        <<49828, 52884>>,  \* '스캔'
        <<49353, 51064>>,  \* '색인'
        <<68, 66>>,  \* 'DB'
        <<45936, 51060, 53552, 48288, 51060, 49828>>,  \* '데이터베이스'
        <<46356, 51648, 53560, 32, 50500, 52852, 51060, 48652>>,  \* '디지털 아카이브'
        <<47700, 53440, 45936, 51060, 53552>>,  \* '메타데이터'
        <<44592, 47197, 54868>>,  \* '기록화'
        <<51204, 49328, 54868>>,  \* '전산화'
        <<44396, 52629>>,  \* '구축'
        <<47680, 54000, 48120, 46356, 50612>>,  \* '멀티미디어'
        <<49884, 52397, 44033>>,  \* '시청각'
        <<50689, 49345>>   \* '영상'
    >>],
    [name |-> "RECORDS_MGMT", keywords |-> <<
        <<44592, 47197, 47932>>,  \* '기록물'
        <<51221, 47532>>,  \* '정리'
        <<44592, 49696>>,  \* '기술'
        <<51060, 44288>>,  \* '이관'
        <<51064, 49688>>,  \* '인수'
        <<54217, 44032>>,  \* '평가'
        <<54224, 44592>>,  \* '폐기'
        <<49892, 53468, 51216, 44160>>,  \* '실태점검'
        <<51221, 49688, 51216, 44160>>,  \* '정수점검'
        <<44277, 44060, 51116, 48516, 47448>>,  \* '공개재분류'
        <<51217, 44540>>,  \* '접근'
        <<51204, 49688, 51312, 49324>>   \* '전수조사'
    >>],
    [name |-> "SPECIAL_PROJECT", keywords |-> <<
        <<52968, 49444, 54021>>,  \* '컨설팅'
        <<50672, 44396>>,  \* '연구'
        <<50857, 50669>>,  \* '용역'
        <<51204, 47029>>,  \* '전략'
        <<44228, 54925>>,  \* '계획'
        <<73, 83, 80>>,  \* 'ISP'
        <<44368, 50977>>,  \* '교육'
        <<54984, 47144>>,  \* '훈련'
        <<49688, 51665>>,  \* '수집'
        <<44396, 49696>>,  \* '구술'
        <<44592, 51613>>,  \* '기증'
        <<51204, 49884>>,  \* '전시'
        <<52292, 47197>>,  \* '채록'
        <<47732, 45812>>,  \* '면담'
        <<51064, 53552, 48624>>,  \* '인터뷰'
        <<47532, 47784, 45944, 47553>>,  \* '리모델링'
        <<44060, 49440>>   \* '개선'
    >>],
    [name |-> "SYSTEM_MGMT", keywords |-> <<
        <<49884, 49828, 53596>>,  \* '시스템'
        <<50976, 51648, 48372, 49688>>,  \* '유지보수'
        <<44256, 46020, 54868>>,  \* '고도화'
        <<44592, 45733, 44060, 49440>>,  \* '기능개선'
        <<48372, 50504>>,  \* '보안'
        <<48177, 49888>>,  \* '백신'
        <<51064, 54532, 46972>>,  \* '인프라'
        <<72, 87>>,  \* 'HW'
        <<83, 87>>,  \* 'SW'
        <<54616, 46300, 50920, 50612>>,  \* '하드웨어'
        <<49548, 54532, 53944, 50920, 50612>>,  \* '소프트웨어'
        <<46972, 51060, 49440, 49828>>,  \* '라이선스'
        <<50629, 44536, 47112, 51060, 46300>>,  \* '업그레이드'
        <<49436, 48260>>,  \* '서버'
        <<51109, 48708>>,  \* '장비'
        <<118, 105, 114, 117, 115>>,  \* 'virus'
        <<97, 110, 116, 105>>,  \* 'anti'
        <<54532, 47196, 44536, 47016>>,  \* '프로그램'
        <<51060, 51204>>,  \* '이전'
        <<83, 47, 87>>   \* 'S/W'
    >>],
    [name |-> "PRESERVATION", keywords |-> <<
        <<48372, 51316>>,  \* '보존'
        <<54872, 44221>>,  \* '환경'
        <<50728, 49845, 46020>>,  \* '온습도'
        <<44277, 44592, 51656>>,  \* '공기질'
        <<54644, 52649>>,  \* '해충'
        <<48169, 51228>>,  \* '방제'
        <<48169, 44512>>,  \* '방균'
        <<49548, 46021>>,  \* '소독'
        <<49436, 44256>>,  \* '서고'
        <<48372, 51316, 50857, 54408>>,  \* '보존용품'
        <<48373, 50896>>,  \* '복원'
        <<48373, 44396>>,  \* '복구'
        <<54693, 44512>>,  \* '향균'
        <<54637, 44512>>,  \* '항균'
        <<51312, 49845>>,  \* '조습'
        <<49332, 52649>>,  \* '살충'
        <<47784, 48716>>,  \* '모빌'
        <<49436, 44032>>,  \* '서가'
        <<51060, 46041, 49885>>,  \* '이동식'
        <<52404, 51064>>,  \* '체인'
        <<51060, 49569>>,  \* '이송'
        <<49688, 47532>>   \* '수리'
    >>]
  >>

(***************************************************************************)
(* ProjectClassifier.PROJECT_SUBTYPE_KEYWORDS: per type, its subtypes in    *)
(* declared order.                                                         *)
(***************************************************************************)
PROJECT_SUBTYPE_KEYWORDS ==
  [
    DIGITALIZATION |-> <<
      [name |-> "PAPER_DIGITIZATION", keywords |-> <<
          <<51333, 51060, 44592, 47197, 47932>>,  \* '종이기록물'
          <<51068, 48152, 47928, 49436>>,  \* '일반문서'
          <<46020, 47732>>,  \* '도면'
          <<52852, 46300>>,  \* '카드'
          <<45824, 51109>>   \* '대장'
      >>],
      [name |-> "SPECIAL_DIGITIZATION", keywords |-> <<
          <<52293, 51088>>,  \* '책자'
          <<44036, 54665, 47932>>,  \* '간행물'
          <<54665, 51221, 48149, 47932>>   \* '행정박물'
      >>],
      [name |-> "AV_DIGITIZATION", keywords |-> <<
          <<47680, 54000, 48120, 46356, 50612>>,  \* '멀티미디어'
          <<49884, 52397, 44033>>,  \* '시청각'
          <<50689, 49345>>,  \* '영상'
          <<49324, 51652>>,  \* '사진'
          <<54596, 47492>>,  \* '필름'
          <<50724, 46356, 50724>>   \* '오디오'
      >>],
      [name |-> "DIGITAL_ARCHIVE", keywords |-> <<
          <<50500, 52852, 51060, 48652>>,  \* '아카이브'
          <<44592, 47197, 54868>>,  \* '기록화'
          <<53080, 53584, 52768>>,  \* '콘텐츠'
          <<52968, 53584, 52768>>   \* '컨텐츠'
      >>]
    >>,
    RECORDS_MGMT |-> <<
      [name |-> "RECORDS_ARRANGE", keywords |-> <<
          <<51221, 47532>>,  \* '정리'
          <<44592, 49696>>,  \* '기술'
          <<51204, 49688, 51312, 49324>>,  \* '전수조사'
          <<47785, 47197>>,  \* '목록'
          <<48516, 47448>>,  \* '분류'
          <<47700, 53440, 45936, 51060, 53552>>   \* '메타데이터'
      >>],
      [name |-> "RECORDS_TRANSFER", keywords |-> <<
          <<51060, 44288>>,  \* '이관'
          <<51064, 49688>>   \* '인수'
      >>],
      [name |-> "RECORDS_APPRAISAL", keywords |-> <<
          <<54217, 44032>>,  \* '평가'
          <<54224, 44592>>   \* '폐기'
      >>],
      [name |-> "RECORDS_INSPECTION", keywords |-> <<
          <<49892, 53468, 51216, 44160>>,  \* '실태점검'
          <<51221, 49688, 51216, 44160>>   \* '정수점검'
      >>],
      [name |-> "ACCESS_CONTROL", keywords |-> <<
          <<44277, 44060, 51116, 48516, 47448>>,  \* '공개재분류'
          <<51217, 44540>>   \* '접근'
      >>]
    >>,
    SPECIAL_PROJECT |-> <<
      [name |-> "CONSULTING", keywords |-> <<
          <<52968, 49444, 54021>>,  \* '컨설팅'
          <<50672, 44396>>,  \* '연구'
          <<50857, 50669>>   \* '용역'
      >>],
      [name |-> "PLANNING", keywords |-> <<
          <<51204, 47029>>,  \* '전략'
          <<44228, 54925>>,  \* '계획'
          <<73, 83, 80>>,  \* 'ISP'
          <<73, 83, 77, 80>>   \* 'ISMP'
      >>],
      [name |-> "EDUCATION", keywords |-> <<
          <<44368, 50977>>,  \* '교육'
          <<54984, 47144>>   \* '훈련'
      >>],
      [name |-> "RECORDS_COLLECTION", keywords |-> <<
          <<49688, 51665>>,  \* '수집'
          <<44396, 49696>>,  \* '구술'
          <<44592, 51613>>,  \* '기증'
          <<52292, 47197>>,  \* '채록'
          <<47732, 45812>>,  \* '면담'
          <<51064, 53552, 48624>>   \* '인터뷰'
      >>],
      [name |-> "EXHIBITION", keywords |-> <<
          <<51204, 49884>>,  \* '전시'
          <<49345, 49444>>,  \* '상설'
          <<44592, 54925>>,  \* '기획'
          <<49692, 54924>>,  \* '순회'
          <<53080, 53584, 52768>>   \* '콘텐츠'
      >>],
      [name |-> "FACILITY_IMPROVE", keywords |-> <<
          <<49884, 49444>>,  \* '시설'
          <<44277, 49324>>,  \* '공사'
          <<47532, 47784, 45944, 47553>>,  \* '리모델링'
          <<44060, 49440>>   \* '개선'
      >>]
    >>,
    SYSTEM_MGMT |-> <<
      [name |-> "SYS_OPERATION", keywords |-> <<
          <<50868, 50689>>,  \* '운영'
          <<50976, 51648, 48372, 49688>>,  \* '유지보수'
          <<72, 87>>,  \* 'HW'
          <<83, 87>>,  \* 'SW'
          <<46972, 51060, 49440, 49828>>,  \* '라이선스'
          <<48177, 50629>>   \* '백업'
      >>],
      [name |-> "SYS_ENHANCEMENT", keywords |-> <<
          <<44256, 46020, 54868>>,  \* '고도화'
          <<44592, 45733, 44060, 49440>>,  \* '기능개선'
          <<50629, 44536, 47112, 51060, 46300>>,  \* '업그레이드'
          <<51060, 51204>>,  \* '이전'
          <<49444, 52824>>,  \* '설치'
          <<51204, 54872>>   \* '전환'
      >>],
      [name |-> "SECURITY_MGMT", keywords |-> <<
          <<48372, 50504>>,  \* '보안'
          <<48177, 49888>>,  \* '백신'
          <<47928, 49436, 48372, 50504>>,  \* '문서보안'
          <<118, 105, 114, 117, 115>>,  \* 'virus'
          <<97, 110, 116, 105>>   \* 'anti'
      >>],
      [name |-> "INFRA_ESTABLISH", keywords |-> <<
          <<51064, 54532, 46972>>,  \* '인프라'
          <<44396, 52629>>,  \* '구축'
          <<49888, 44508>>,  \* '신규'
          <<49884, 49828, 53596>>,  \* '시스템'
          <<51109, 48708>>,  \* '장비'
          <<49436, 48260>>,  \* '서버'
          <<44368, 52404>>,  \* '교체'
          <<45432, 54980>>   \* '노후'
      >>]
    >>,
    PRESERVATION |-> <<
      [name |-> "ENVIRONMENT_CONTROL", keywords |-> <<
          <<54872, 44221>>,  \* '환경'
          <<50728, 49845, 46020>>,  \* '온습도'
          <<44277, 44592, 51656>>,  \* '공기질'
          <<51312, 49845>>   \* '조습'
      >>],
      [name |-> "PEST_PREVENTION", keywords |-> <<
          <<54644, 52649>>,  \* '해충'
          <<48169, 51228>>,  \* '방제'
          <<48169, 44512>>,  \* '방균'
          <<49548, 46021>>,  \* '소독'
          <<48169, 50669>>,  \* '방역'
          <<54693, 44512>>,  \* '향균'
          <<54637, 44512>>,  \* '항균'
          <<49332, 52649>>   \* '살충'
      >>],
      [name |-> "STORAGE_MGMT", keywords |-> <<
          <<49436, 44256>>,  \* '서고'
          <<49884, 49444>>,  \* '시설'
          <<51109, 48708>>,  \* '장비'
          <<49436, 44032>>,  \* '서가'
          <<47784, 48716>>,  \* '모빌'
          <<51060, 46041, 49885>>,  \* '이동식'
          <<52404, 51064>>,  \* '체인'
          <<51060, 49569>>   \* '이송'
      >>],
      [name |-> "SUPPLIES_MGMT", keywords |-> <<
          <<48372, 51316, 50857, 54408>>,  \* '보존용품'
          <<49345, 51088>>,  \* '상자'
          <<48393, 53804>>,  \* '봉투'
          <<50857, 54408>>   \* '용품'
      >>],
      [name |-> "REPAIR_RESTORE", keywords |-> <<
          <<48373, 50896>>,  \* '복원'
          <<48373, 44396>>,  \* '복구'
          <<52376, 47532>>,  \* '처리'
          <<49688, 47532>>,  \* '수리'
          <<44368, 52404>>   \* '교체'
      >>]
    >>
  ]

\* ProjectClassifier.PROJECT_TYPE_KR: display label of each type key.
PROJECT_TYPE_KR ==
  [
    DIGITALIZATION  |-> <<51204, 51088, 54868, 32, 49324, 50629>>,  \* '전자화 사업'
    RECORDS_MGMT    |-> <<44592, 47197, 47932, 44288, 47532>>,  \* '기록물관리'
    SPECIAL_PROJECT |-> <<53945, 49688, 49324, 50629>>,  \* '특수사업'
    SYSTEM_MGMT     |-> <<49884, 49828, 53596, 32, 44288, 47532>>,  \* '시스템 관리'
    PRESERVATION    |-> <<48372, 51316, 44288, 47532>>,  \* '보존관리'
    NO_PROJECT      |-> <<49324, 50629, 50630, 51020>>,  \* '사업없음'
    UNCLASSIFIED    |-> <<48120, 48516, 47448>>   \* '미분류'
  ]

\* ProjectClassifier.PROJECT_SUBTYPE_KR: display label of each subtype key.
PROJECT_SUBTYPE_KR ==
  [
    PAPER_DIGITIZATION   |-> <<51333, 51060, 44592, 47197, 47932, 32, 51204, 51088, 54868>>,  \* '종이기록물 전자화'
    SPECIAL_DIGITIZATION |-> <<53945, 49688, 50976, 54805, 44592, 47197, 47932, 32, 51204, 51088, 54868>>,  \* '특수유형기록물 전자화'
    AV_DIGITIZATION      |-> <<49884, 52397, 44033, 44592, 47197, 47932, 32, 46356, 51648, 53560, 54868>>,  \* '시청각기록물 디지털화'
    DIGITAL_ARCHIVE      |-> <<46356, 51648, 53560, 32, 50500, 52852, 51060, 48652, 32, 44396, 52629>>,  \* '디지털 아카이브 구축'
    RECORDS_ARRANGE      |-> <<44592, 47197, 47932, 32, 51221, 47532, 47, 44592, 49696>>,  \* '기록물 정리/기술'
    RECORDS_TRANSFER     |-> <<51060, 44288, 47, 51064, 49688>>,  \* '이관/인수'
    RECORDS_APPRAISAL    |-> <<54217, 44032, 47, 54224, 44592>>,  \* '평가/폐기'
    RECORDS_INSPECTION   |-> <<49892, 53468, 51216, 44160, 47, 51221, 49688, 51216, 44160>>,  \* '실태점검/정수점검'
    ACCESS_CONTROL       |-> <<44277, 44060, 51116, 48516, 47448, 47, 51217, 44540, 44288, 47532>>,  \* '공개재분류/접근관리'
    CONSULTING           |-> <<52968, 49444, 54021, 47, 50672, 44396, 50857, 50669>>,  \* '컨설팅/연구용역'
    PLANNING             |-> <<51204, 47029, 47, 44228, 54925, 49688, 47549>>,  \* '전략/계획수립'
    EDUCATION            |-> <<44368, 50977, 47, 54984, 47144>>,  \* '교육/훈련'
    RECORDS_COLLECTION   |-> <<44592, 47197, 47932, 32, 49688, 51665>>,  \* '기록물 수집'
    EXHIBITION           |-> <<51204, 49884, 49324, 50629>>,  \* '전시사업'
    FACILITY_IMPROVE     |-> <<49884, 49444, 44060, 49440>>,  \* '시설개선'
    SYS_OPERATION        |-> <<49884, 49828, 53596, 32, 50868, 50689, 47, 50976, 51648, 48372, 49688>>,  \* '시스템 운영/유지보수'
    SYS_ENHANCEMENT      |-> <<49884, 49828, 53596, 32, 44256, 46020, 54868, 47, 44060, 49440>>,  \* '시스템 고도화/개선'
    SECURITY_MGMT        |-> <<48372, 50504, 44288, 47532>>,  \* '보안관리'
    INFRA_ESTABLISH      |-> <<51064, 54532, 46972, 32, 44396, 52629>>,  \* '인프라 구축'
    ENVIRONMENT_CONTROL  |-> <<48372, 51316, 54872, 44221, 32, 44288, 47532>>,  \* '보존환경 관리'
    PEST_PREVENTION      |-> <<54644, 52649, 48169, 51228, 47, 48169, 44512, 44288, 47532>>,  \* '해충방제/방균관리'
    STORAGE_MGMT         |-> <<49436, 44256, 44288, 47532>>,  \* '서고관리'
    SUPPLIES_MGMT        |-> <<48372, 51316, 50857, 54408, 44288, 47532>>,  \* '보존용품관리'
    REPAIR_RESTORE       |-> <<48373, 50896, 47, 48373, 44396, 52376, 47532>>,  \* '복원/복구처리'
    NO_PROJECT           |-> <<49324, 50629, 50630, 51020>>,  \* '사업없음'
    UNCLASSIFIED         |-> <<48120, 48516, 47448>>   \* '미분류'
  ]

\* DataProcessor.PROJECT_TYPE_KR (data_processor.py): display label of each type key.
DataProcessor_PROJECT_TYPE_KR ==
  [
    SYSTEM_MGMT     |-> <<49884, 49828, 53596, 32, 44288, 47532>>,  \* '시스템 관리'
    DIGITALIZATION  |-> <<46356, 51648, 53560, 54868>>,  \* '디지털화'
    PRESERVATION    |-> <<48372, 51316, 44288, 47532>>,  \* '보존관리'
    RECORDS_MGMT    |-> <<44592, 47197, 47932, 44288, 47532>>,  \* '기록물관리'
    SPECIAL_PROJECT |-> <<53945, 49688, 49324, 50629>>   \* '특수사업'
  ]

\* DataProcessor.PROJECT_SUBTYPE_KR (data_processor.py): display label of each subtype key.
DataProcessor_PROJECT_SUBTYPE_KR ==
  [
    SYS_OPERATION        |-> <<49884, 49828, 53596, 32, 50868, 50689, 47, 50976, 51648, 48372, 49688>>,  \* '시스템 운영/유지보수'
    SYS_ENHANCEMENT      |-> <<49884, 49828, 53596, 32, 44256, 46020, 54868, 47, 44060, 49440>>,  \* '시스템 고도화/개선'
    SECURITY_MGMT        |-> <<48372, 50504, 44288, 47532>>,  \* '보안관리'
    INFRA_ESTABLISH      |-> <<51064, 54532, 46972, 32, 44396, 52629>>,  \* '인프라 구축'
    RECORDS_DIGITIZATION |-> <<44592, 47197, 47932, 32, 46356, 51648, 53560, 54868>>,  \* '기록물 디지털화'
    DB_CONSTRUCTION      |-> <<45936, 51060, 53552, 48288, 51060, 49828, 32, 44396, 52629>>,  \* '데이터베이스 구축'
    DIGITAL_ARCHIVE      |-> <<46356, 51648, 53560, 32, 50500, 52852, 51060, 48652, 32, 44396, 52629>>,  \* '디지털 아카이브 구축'
    ENVIRONMENT_CONTROL  |-> <<48372, 51316, 54872, 44221, 32, 44288, 47532>>,  \* '보존환경 관리'
    PEST_PREVENTION      |-> <<54644, 52649, 48169, 51228, 47, 48169, 44512, 44288, 47532>>,  \* '해충방제/방균관리'
    STORAGE_MGMT         |-> <<49436, 44256, 44288, 47532>>,  \* '서고관리'
    SUPPLIES_MGMT        |-> <<48372, 51316, 50857, 54408, 44288, 47532>>,  \* '보존용품관리'
    REPAIR_RESTORE       |-> <<48373, 50896, 47, 48373, 44396, 52376, 47532>>,  \* '복원/복구처리'
    RECORDS_ARRANGE      |-> <<44592, 47197, 47932, 32, 51221, 47532, 47, 44592, 49696>>,  \* '기록물 정리/기술'
    RECORDS_TRANSFER     |-> <<51060, 44288, 47, 51064, 49688>>,  \* '이관/인수'
    RECORDS_APPRAISAL    |-> <<54217, 44032, 47, 54224, 44592>>,  \* '평가/폐기'
    RECORDS_INSPECTION   |-> <<49892, 53468, 51216, 44160, 47, 51221, 49688, 51216, 44160>>,  \* '실태점검/정수점검'
    ACCESS_CONTROL       |-> <<44277, 44060, 51116, 48516, 47448, 47, 51217, 44540, 44288, 47532>>,  \* '공개재분류/접근관리'
    CONSULTING           |-> <<52968, 49444, 54021, 47, 50672, 44396, 50857, 50669>>,  \* '컨설팅/연구용역'
    PLANNING             |-> <<51204, 47029, 47, 44228, 54925, 49688, 47549>>,  \* '전략/계획수립'
    EDUCATION            |-> <<44368, 50977, 47, 54984, 47144>>,  \* '교육/훈련'
    FACILITY_IMPROVE     |-> <<49884, 49444, 44060, 49440>>   \* '시설개선'
  ]

(***************************************************************************)
(* Python values that reach classify_project.  A str carries its code      *)
(* points; the other values are what a CSV cell read by pandas can hold    *)
(* (NaN for a missing cell, a number for a numeric column) and None.       *)
(***************************************************************************)
Str(s) == [type |-> "str", chars |-> s, repr |-> ""]

None == [type |-> "NoneType", chars |-> <<>>, repr |-> "None"]

NaN == [type |-> "float", chars |-> <<>>, repr |-> "nan"]

Number(r) == [type |-> "int", chars |-> <<>>, repr |-> r]

\* isinstance(v, str)
isinstance_str(v) == v.type = "str"

\* bool(v): the truth value Python's `not v` negates.
truthy(v) ==
  CASE v.type = "str" -> v.chars # <<>>
    [] v.type = "NoneType" -> FALSE
    [] OTHER -> v.repr \notin {"0", "0.0", "False"}

(***************************************************************************)
(* str.lower(), str.strip() and the `in` substring test.                   *)
(***************************************************************************)
\* str.lower() on one code point: ASCII capitals map to small letters; the
\* Hangul syllables, digits, space and '/' of the tables and inputs are uncased.
lower_char(c) == IF c \in 65..90 THEN c + 32 ELSE c

lower(s) == [k \in 1..Len(s) |-> lower_char(s[k])]

\* str.isspace() for one code point (the characters str.strip() removes).
isspace(c) ==
  c \in (9..13) \cup (28..32) \cup {133, 160, 5760} \cup (8192..8202)
        \cup {8232, 8233, 8239, 8287, 12288}

RECURSIVE lstrip(_)
lstrip(s) == IF s # <<>> /\ isspace(Head(s)) THEN lstrip(Tail(s)) ELSE s

RECURSIVE rstrip(_)
rstrip(s) ==
  IF s # <<>> /\ isspace(s[Len(s)]) THEN rstrip(SubSeq(s, 1, Len(s) - 1)) ELSE s

strip(s) == rstrip(lstrip(s))

\* keyword in text
contains(keyword, text) ==
  \E k \in 0..(Len(text) - Len(keyword)) :
    SubSeq(text, k + 1, k + Len(keyword)) = keyword

\* The sentinel list ['사업없음', '미업로드', ''] of lines 120 and 161.
NO_PROJECT_TEXTS ==
  { <<49324, 50629, 50630, 51020>>,  \* '사업없음'
    <<48120, 50629, 47196, 46300>>,  \* '미업로드'
    <<>> }                           \* ''

\* Mutant: a text that has a sentinel inside it counts as a sentinel.
is_sentinel_substring(t) ==
  \/ t = <<>>
  \/ \E s \in NO_PROJECT_TEXTS : s # <<>> /\ contains(s, t)

\* Mutant: the list of line 120 lacks '미업로드'.
is_sentinel_short_list(t) == t \in NO_PROJECT_TEXTS \ {<<48120, 50629, 47196, 46300>>}

\* Line 120: text in ['사업없음', '미업로드', '']
is_sentinel(t) == t \in NO_PROJECT_TEXTS

\* Mutant: the count stops at the first keyword that is not in the text.
matches_leading(keywords, text) ==
  Cardinality({j \in 1..Len(keywords) :
                 \A i \in 1..j : contains(lower(keywords[i]), text)})

\* Mutant: a keyword inside another keyword of the list that is in the text
\* is not counted.
matches_no_substrings(keywords, text) ==
  Cardinality({j \in 1..Len(keywords) :
                 /\ contains(lower(keywords[j]), text)
                 /\ ~\E i \in 1..Len(keywords) :
                       /\ i # j
                       /\ contains(lower(keywords[j]), lower(keywords[i]))
                       /\ contains(lower(keywords[i]), text)})

\* sum(1 for keyword in keywords if keyword.lower() in text)
matches(keywords, text) ==
  Cardinality({j \in 1..Len(keywords) : contains(lower(keywords[j]), text)})

\* Mutant: the SYSTEM_MGMT default misspells its subtype key.
default_subtypes_typo ==
  [ DIGITALIZATION  |-> "PAPER_DIGITIZATION",
    RECORDS_MGMT    |-> "RECORDS_ARRANGE",
    SPECIAL_PROJECT |-> "CONSULTING",
    SYSTEM_MGMT     |-> "SYS_OPERATIONS",
    PRESERVATION    |-> "STORAGE_MGMT" ]

\* Mutant: the PRESERVATION default is the first subtype of its table.
default_subtypes_first ==
  [ DIGITALIZATION  |-> "PAPER_DIGITIZATION",
    RECORDS_MGMT    |-> "RECORDS_ARRANGE",
    SPECIAL_PROJECT |-> "CONSULTING",
    SYSTEM_MGMT     |-> "SYS_OPERATION",
    PRESERVATION    |-> "ENVIRONMENT_CONTROL" ]

\* default_subtypes of classify_project.
default_subtypes ==
  [ DIGITALIZATION  |-> "PAPER_DIGITIZATION",
    RECORDS_MGMT    |-> "RECORDS_ARRANGE",
    SPECIAL_PROJECT |-> "CONSULTING",
    SYSTEM_MGMT     |-> "SYS_OPERATION",
    PRESERVATION    |-> "STORAGE_MGMT" ]

\* Mutant: the guard without its isinstance test.
is_missing_untyped(v) == ~truthy(v)

\* Line 147: the guard `not project_detail or not isinstance(project_detail, str)`.
is_missing(v) == ~truthy(v) \/ ~isinstance_str(v)

\* Mutant: the text is lower-cased but not stripped.
normalize_no_strip(s) == lower(s)

\* Mutant: the text is stripped but not lower-cased.
normalize_no_lower(s) == strip(s)

\* Line 119: text.lower().strip()
normalize(s) == strip(lower(s))

\* Mutant: a type is returned at once only when two of its keywords match.
return_first_match_repeated(n, priority) == n > 1 /\ priority

\* Mutant: no early return, the type with the most matches wins.
return_first_match_never(n, priority) == FALSE

\* Lines 126-128: with check_priority the first item that matches is returned.
return_first_match(n, priority) == n > 0 /\ priority

\* Mutant: the first item that matches is kept, whatever the later counts.
better_match_first(n, max) == max = 0

\* Mutant: an equal count replaces the best item too.
better_match_or_equal(n, max) == n >= max

\* Mutant: the comparison is inverted.
better_match_inverted(n, max) == n < max

\* Line 130: a later item replaces the best one only with more matches.
better_match(n, max) == n > max

\* dict.get(key, default)
dict_get(d, key, default) == IF key \in DOMAIN d THEN d[key] ELSE default

(***************************************************************************)
(* Inputs: every text made of at most MaxWords words of Words, and the     *)
(* non-string values.                                                      *)
(***************************************************************************)
MaxWords == 2

Words ==
  { <<32>>,                                 \* ' '
    <<49324, 50629, 50630, 51020>>,         \* '사업없음'
    <<48120, 50629, 47196, 46300>>,         \* '미업로드'
    <<51204, 51088, 54868>>,                \* '전자화'
    <<68, 66>>,                             \* 'DB'
    <<44592, 47197, 47932>>,                \* '기록물'
    <<51221, 47532>>,                       \* '정리'
    <<51060, 44288>>,                       \* '이관'
    <<44368, 50977>>,                       \* '교육'
    <<49884, 49828, 53596>>,                \* '시스템'
    <<50976, 51648, 48372, 49688>>,         \* '유지보수'
    <<44256, 46020, 54868>>,                \* '고도화'
    <<51060, 51204, 49444, 52824>>,         \* '이전설치'
    <<54616, 46300, 50920, 50612>>,         \* '하드웨어'
    <<48372, 51316>>,                       \* '보존'
    <<48372, 51316, 49436, 44256>>,         \* '보존서고'
    <<54924, 51032, 48708>> }               \* '회의비'

RECURSIVE Texts(_)
Texts(n) ==
  IF n = 0 THEN {<<>>}
  ELSE LET shorter == Texts(n - 1)
       IN  shorter \cup {t \o w : t \in shorter, w \in Words}

NonStrings == {None, NaN, Number("0"), Number("7")}

Inputs == {Str(t) : t \in Texts(MaxWords)} \cup NonStrings

(***************************************************************************)
(* State: one call of classify_project and the frame of the                *)
(* _find_matching_type call it is in.                                      *)
(***************************************************************************)
VARIABLES
  project_detail,   \* the argument of classify_project
  pc,               \* position in classify_project / _find_matching_type
  check_priority,   \* _find_matching_type: the check_priority argument
  text,             \* _find_matching_type: the normalized text
  scanned,          \* _find_matching_type: items of keywords_dict examined
  max_matches,      \* _find_matching_type: max_matches
  best_type,        \* _find_matching_type: best_type
  returned,         \* value returned by the last _find_matching_type call
  project_type,     \* classify_project: project_type
  project_subtype,  \* classify_project: project_subtype
  result,           \* the pair classify_project returned, <<>> before it returns
  raised,           \* the exception classify_project raised, "" when none
  history,          \* the earlier calls of classify_project: argument and outcome
  disk,             \* the CSV files, by path
  input_file,       \* classify_projects_in_csv: input_file
  output_file,      \* classify_projects_in_csv: output_file
  bpc,              \* position in classify_projects_in_csv
  df,               \* classify_projects_in_csv: df
  ret,              \* what classify_projects_in_csv returned: "None" or "DataFrame" (df)
  printed,          \* the failure it printed, "" when none
  batch_raised,     \* the exception raised inside its try block, "" when none
  disk_at_call,     \* the files as they were when it was called
  batch_log,        \* its earlier calls: the files named and the table returned
  dataset,          \* the descriptions of the rows given to the workers
  owner,            \* the worker each row is assigned to
  labels,           \* the pair attached to each row, <<>> before it is classified
  running,          \* the worker that is executing
  suspended,        \* the locals of the calls of the workers that are not executing
  row,              \* the row each worker is classifying, 0 when none
  csv,              \* DataProcessor: the file at self.csv_path
  dp_pc,            \* position in get_processed_data
  dp_df,            \* get_processed_data: df
  idx,              \* get_processed_data: the rows the loop has gone through
  dp_raised,        \* the exception get_processed_data raised, "" when none
  fd_pc,            \* position in get_filtered_data
  filter_df,        \* get_filtered_data: the argument df
  selected_regions, \* get_filtered_data: selected_regions
  selected_types,   \* get_filtered_data: selected_types
  budget_range,     \* get_filtered_data: budget_range
  filtered_df,      \* get_filtered_data: filtered_df
  fd_ret,           \* the table get_filtered_data returned
  session_state,    \* app.py: st.session_state, a dict
  now,              \* app.py: the hour datetime.now() reads
  rendered,         \* app.py: what the last script run put on the screen
  event             \* app.py: what the last script run was started by

\* What one call of classify_project leaves alone.
batch_vars == <<disk, input_file, output_file, bpc, df, ret, printed,
                batch_raised, disk_at_call, batch_log>>

worker_vars == <<dataset, owner, labels, running, suspended, row>>

processor_vars == <<csv, dp_pc, dp_df, idx, dp_raised>>

filter_vars == <<fd_pc, filter_df, selected_regions, selected_types, budget_range,
                 filtered_df, fd_ret>>

app_vars == <<session_state, now, rendered, event>>

others == <<history, batch_vars, worker_vars, processor_vars, filter_vars, app_vars>>

frame_vars == <<project_detail, pc, check_priority, text, scanned, max_matches,
                best_type, returned, project_type, project_subtype, result, raised>>

vars == <<frame_vars, others>>

(***************************************************************************)
(* Files and tables.  A CSV file is its header and its rows of cell texts; *)
(* a DataFrame is its columns and its rows of Python values.               *)
(***************************************************************************)
Paths == {"in.csv", "out.csv"}

NoFile == [exists |-> FALSE, columns |-> <<>>, rows |-> <<>>]

File(columns, rows) == [exists |-> TRUE, columns |-> columns, rows |-> rows]

NoFrame == [columns |-> <<>>, rows |-> <<>>]

\* classify_projects_in_csv is not running.
batch_idle ==
  /\ disk = [p \in Paths |-> NoFile]
  /\ input_file = "None"
  /\ output_file = "None"
  /\ bpc = "idle"
  /\ df = NoFrame
  /\ ret = "unset"
  /\ printed = ""
  /\ batch_raised = ""
  /\ disk_at_call = [p \in Paths |-> NoFile]
  /\ batch_log = <<>>

\* There are no workers.
workers_idle ==
  /\ dataset = <<>>
  /\ owner = <<>>
  /\ labels = <<>>
  /\ running = "None"
  /\ suspended = <<>>
  /\ row = <<>>

\* No DataProcessor is at work.
processor_idle ==
  /\ csv = NoFile
  /\ dp_pc = "idle"
  /\ dp_df = NoFrame
  /\ idx = 0
  /\ dp_raised = ""

\* get_filtered_data has not been called.
filter_idle ==
  /\ fd_pc = "idle"
  /\ filter_df = <<>>
  /\ selected_regions = None
  /\ selected_types = None
  /\ budget_range = None
  /\ filtered_df = <<>>
  /\ fd_ret = <<>>

\* No browser session is open.
app_idle ==
  /\ session_state = <<>>
  /\ now = 0
  /\ rendered = {}
  /\ event = "idle"

\* Python's None for the str-or-None locals, and the state before a return.
NoneKey == "None"

NoResult == <<>>

NoException == ""

NO_PROJECT_RESULT == <<PROJECT_TYPE_KR["NO_PROJECT"], PROJECT_SUBTYPE_KR["NO_PROJECT"]>>

UNCLASSIFIED_RESULT == <<PROJECT_TYPE_KR["UNCLASSIFIED"], PROJECT_SUBTYPE_KR["UNCLASSIFIED"]>>

Init ==
  /\ project_detail \in Inputs
  /\ pc = "classify_project"
  /\ check_priority = TRUE
  /\ text = <<>>
  /\ scanned = 0
  /\ max_matches = 0
  /\ best_type = NoneKey
  /\ returned = NoneKey
  /\ project_type = NoneKey
  /\ project_subtype = NoneKey
  /\ result = NoResult
  /\ raised = NoException
  /\ history = <<>>
  /\ batch_idle
  /\ workers_idle
  /\ processor_idle
  /\ filter_idle
  /\ app_idle

\* One call of classify_project on an argument of `inputs`.
InitOn(inputs) ==
  /\ project_detail \in inputs
  /\ pc = "classify_project"
  /\ check_priority = TRUE
  /\ text = <<>>
  /\ scanned = 0
  /\ max_matches = 0
  /\ best_type = NoneKey
  /\ returned = NoneKey
  /\ project_type = NoneKey
  /\ project_subtype = NoneKey
  /\ result = NoResult
  /\ raised = NoException
  /\ history = <<>>
  /\ batch_idle
  /\ workers_idle
  /\ processor_idle
  /\ filter_idle
  /\ app_idle

\* Every text made of at most n words of a set of words, and the strings of
\* these texts.
RECURSIVE TextsOver(_, _)
TextsOver(words, n) ==
  IF n = 0 THEN {<<>>}
  ELSE LET shorter == TextsOver(words, n - 1)
       IN  shorter \cup {t \o w : t \in shorter, w \in words}

InputsOver(words, n) == {Str(t) : t \in TextsOver(words, n)}

\* Mutant: the second call scans the subtypes of every type.
keywords_dict_all_types ==
  IF check_priority THEN PROJECT_TYPE_KEYWORDS
  ELSE PROJECT_SUBTYPE_KEYWORDS["DIGITALIZATION"]
         \o PROJECT_SUBTYPE_KEYWORDS["RECORDS_MGMT"]
         \o PROJECT_SUBTYPE_KEYWORDS["SPECIAL_PROJECT"]
         \o PROJECT_SUBTYPE_KEYWORDS["SYSTEM_MGMT"]
         \o PROJECT_SUBTYPE_KEYWORDS["PRESERVATION"]

\* Mutant: the first call scans SYSTEM_MGMT before the other types.
keywords_dict_system_first ==
  IF check_priority
  THEN <<PROJECT_TYPE_KEYWORDS[4]>> \o SubSeq(PROJECT_TYPE_KEYWORDS, 1, 3)
         \o <<PROJECT_TYPE_KEYWORDS[5]>>
  ELSE PROJECT_SUBTYPE_KEYWORDS[project_type]

\* Mutant: the second call scans the subtypes of PRESERVATION before those
\* of the selected type.
keywords_dict_after_preservation ==
  IF check_priority THEN PROJECT_TYPE_KEYWORDS
  ELSE PROJECT_SUBTYPE_KEYWORDS["PRESERVATION"] \o PROJECT_SUBTYPE_KEYWORDS[project_type]

\* The keywords_dict argument of the current _find_matching_type call: the
\* type table in the first call, the selected type's subtype table in the second.
keywords_dict ==
  IF check_priority THEN PROJECT_TYPE_KEYWORDS
  ELSE PROJECT_SUBTYPE_KEYWORDS[project_type]

\* Where a _find_matching_type call returns to.
return_site == IF check_priority THEN "type_returned" ELSE "subtype_returned"

\* classify_project, lines 147-156: the guard and the first call.
classify_project ==
  /\ pc = "classify_project"
  /\ IF is_missing(project_detail)
     THEN /\ result' = NO_PROJECT_RESULT
          /\ pc' = "done"
     ELSE /\ pc' = "find_matching_type"
          /\ UNCHANGED result
  /\ check_priority' = TRUE
  /\ UNCHANGED <<project_detail, text, scanned, max_matches, best_type,
                 returned, project_type, project_subtype, raised, others>>

\* Mutant: max_matches is not a fresh local, it keeps the value of the last call.
stale_max_matches == max_matches

\* Line 115: max_matches = 0
initial_max_matches == 0

\* _find_matching_type, lines 115-121: initialisation, normalization, sentinels.
find_matching_type ==
  /\ pc = "find_matching_type"
  /\ max_matches' = initial_max_matches
  /\ best_type' = NoneKey
  /\ scanned' = 0
  /\ IF ~isinstance_str(project_detail)
     THEN /\ raised' = "AttributeError"
          /\ pc' = "done"
          /\ UNCHANGED <<text, returned>>
     ELSE /\ text' = normalize(project_detail.chars)
          /\ UNCHANGED raised
          /\ IF is_sentinel(text')
             THEN /\ returned' = "NO_PROJECT"
                  /\ pc' = return_site
             ELSE /\ pc' = "for_type_name"
                  /\ UNCHANGED returned
  /\ UNCHANGED <<project_detail, check_priority, project_type, project_subtype,
                 result, others>>

\* Line 134: best_type if max_matches > 0 else None
loop_result(max, best) == IF max > 0 THEN best ELSE NoneKey

\* _find_matching_type, lines 124-134: one iteration of the loop over
\* keywords_dict.items(), or the return after the last one.
for_type_name ==
  /\ pc = "for_type_name"
  /\ IF scanned < Len(keywords_dict)
     THEN LET item == keywords_dict[scanned + 1]
              n == matches(item.keywords, text)
          IN  /\ scanned' = scanned + 1
              /\ IF return_first_match(n, check_priority)
                 THEN /\ returned' = item.name
                      /\ pc' = return_site
                      /\ UNCHANGED <<max_matches, best_type>>
                 ELSE /\ IF n > 0 /\ better_match(n, max_matches)
                         THEN max_matches' = n /\ best_type' = item.name
                         ELSE UNCHANGED <<max_matches, best_type>>
                      /\ UNCHANGED <<pc, returned>>
     ELSE /\ returned' = loop_result(max_matches, best_type)
          /\ pc' = return_site
          /\ UNCHANGED <<scanned, max_matches, best_type>>
  /\ UNCHANGED <<project_detail, check_priority, text, project_type,
                 project_subtype, result, raised, others>>

\* Mutant: an unmatched text falls back to the NO_PROJECT pair.
unmatched_result_no_project(detail) == NO_PROJECT_RESULT

\* Lines 159-165: no type matched; the sentinels are checked once more.
unmatched_result(detail) ==
  IF strip(lower(detail.chars)) \in NO_PROJECT_TEXTS
  THEN NO_PROJECT_RESULT
  ELSE UNCLASSIFIED_RESULT

\* classify_project, lines 152-176: the type is known; return for no type and
\* for NO_PROJECT, else call _find_matching_type on the type's subtype table.
type_returned ==
  /\ pc = "type_returned"
  /\ project_type' = returned
  /\ IF returned = NoneKey
     THEN /\ result' = unmatched_result(project_detail)
          /\ pc' = "done"
          /\ UNCHANGED <<check_priority, raised>>
     ELSE IF returned = "NO_PROJECT"
     THEN /\ result' = NO_PROJECT_RESULT
          /\ pc' = "done"
          /\ UNCHANGED <<check_priority, raised>>
     ELSE IF returned \notin DOMAIN PROJECT_SUBTYPE_KEYWORDS
     THEN /\ raised' = "KeyError"
          /\ pc' = "done"
          /\ UNCHANGED <<check_priority, result>>
     ELSE /\ check_priority' = FALSE
          /\ pc' = "find_matching_type"
          /\ UNCHANGED <<result, raised>>
  /\ UNCHANGED <<project_detail, text, scanned, max_matches, best_type,
                 returned, project_subtype, others>>

\* classify_project, lines 172-191: the subtype is known; default it when
\* there is none and map both keys to their labels.
subtype_returned ==
  /\ pc = "subtype_returned"
  /\ LET subtype == IF returned = NoneKey
                    THEN dict_get(default_subtypes, project_type, "UNCLASSIFIED")
                    ELSE returned
     IN  /\ project_subtype' = subtype
         /\ IF /\ project_type \in DOMAIN PROJECT_TYPE_KR
               /\ subtype \in DOMAIN PROJECT_SUBTYPE_KR
            THEN /\ result' = <<PROJECT_TYPE_KR[project_type],
                                PROJECT_SUBTYPE_KR[subtype]>>
                 /\ UNCHANGED raised
            ELSE /\ raised' = "KeyError"
                 /\ UNCHANGED result
  /\ pc' = "done"
  /\ UNCHANGED <<project_detail, check_priority, text, scanned, max_matches,
                 best_type, returned, project_type, others>>

Next ==
  \/ classify_project
  \/ find_matching_type
  \/ for_type_name
  \/ type_returned
  \/ subtype_returned

Spec == Init /\ [][Next]_vars

(***************************************************************************)
(* A session: classify_project is called again and again, as the row-wise  *)
(* apply of line 214 does.  The locals of a finished call are left as they *)
(* are; the code sets each before reading it.                              *)
(***************************************************************************)
MaxCalls == 3

SessionTexts ==
  { <<51060, 44288>>,                                           \* '이관'
    <<51221, 47532, 51060, 44288>>,                             \* '정리이관'
    <<50976, 51648, 48372, 49688, 51060, 51204, 49444, 52824>>, \* '유지보수이전설치'
    <<49884, 49828, 53596>>,                                    \* '시스템'
    <<32, 48120, 50629, 47196, 46300>>,                         \* ' 미업로드'
    <<54924, 51032, 48708>> }                                   \* '회의비'

SessionInputs == {Str(t) : t \in SessionTexts} \cup {None, NaN}

InitSession ==
  /\ project_detail \in SessionInputs
  /\ pc = "classify_project"
  /\ check_priority = TRUE
  /\ text = <<>>
  /\ scanned = 0
  /\ max_matches = 0
  /\ best_type = NoneKey
  /\ returned = NoneKey
  /\ project_type = NoneKey
  /\ project_subtype = NoneKey
  /\ result = NoResult
  /\ raised = NoException
  /\ history = <<>>
  /\ batch_idle
  /\ workers_idle
  /\ processor_idle
  /\ filter_idle
  /\ app_idle

\* The next call of classify_project, after the last one returned.
call_again ==
  /\ pc = "done"
  /\ Len(history) + 1 < MaxCalls
  /\ history' = Append(history, [detail |-> project_detail, result |-> result,
                                 raised |-> raised])
  /\ project_detail' \in SessionInputs
  /\ pc' = "classify_project"
  /\ result' = NoResult
  /\ raised' = NoException
  /\ UNCHANGED <<check_priority, text, scanned, max_matches, best_type,
                 returned, project_type, project_subtype, batch_vars, worker_vars,
                 processor_vars, filter_vars, app_vars>>

NextSession ==
  \/ Next
  \/ call_again

SpecSession == InitSession /\ [][NextSession]_vars

(***************************************************************************)
(* classify_project as the function of its argument that a caller sees:    *)
(* the same lines as the actions above, run to the return.                 *)
(***************************************************************************)
\* Lines 124-134: the loop from item k on, with max_matches and best_type.
RECURSIVE scan_items(_, _, _, _, _, _)
scan_items(dict, txt, priority, k, max, best) ==
  IF k > Len(dict) THEN loop_result(max, best)
  ELSE LET n == matches(dict[k].keywords, txt)
       IN  IF return_first_match(n, priority) THEN dict[k].name
           ELSE IF n > 0 /\ better_match(n, max)
                THEN scan_items(dict, txt, priority, k + 1, n, dict[k].name)
                ELSE scan_items(dict, txt, priority, k + 1, max, best)

\* _find_matching_type(text, keywords_dict, check_priority), lines 113-134.
find_matching_type_of(chars, dict, priority) ==
  LET txt == normalize(chars)
  IN  IF is_sentinel(txt) THEN "NO_PROJECT"
      ELSE scan_items(dict, txt, priority, 1, initial_max_matches, NoneKey)

returns(pair) == [result |-> pair, raised |-> NoException]

raises(exception) == [result |-> NoResult, raised |-> exception]

\* classify_project(project_detail), lines 137-191, as a function of its
\* argument and of the two class attributes it reads.
classify_project_with(v, type_keywords, subtype_keywords) ==
  IF is_missing(v) THEN returns(NO_PROJECT_RESULT)
  ELSE IF ~isinstance_str(v) THEN raises("AttributeError")
  ELSE
    LET ty == find_matching_type_of(v.chars, type_keywords, TRUE)
    IN  IF ty = NoneKey THEN returns(unmatched_result(v))
        ELSE IF ty = "NO_PROJECT" THEN returns(NO_PROJECT_RESULT)
        ELSE IF ty \notin DOMAIN subtype_keywords THEN raises("KeyError")
        ELSE
          LET found == find_matching_type_of(v.chars, subtype_keywords[ty], FALSE)
              subtype == IF found = NoneKey
                         THEN dict_get(default_subtypes, ty, "UNCLASSIFIED")
                         ELSE found
          IN  IF /\ ty \in DOMAIN PROJECT_TYPE_KR
                 /\ subtype \in DOMAIN PROJECT_SUBTYPE_KR
              THEN returns(<<PROJECT_TYPE_KR[ty], PROJECT_SUBTYPE_KR[subtype]>>)
              ELSE raises("KeyError")

\* classify_project(project_detail) with the tables of the class.
classify_project_of(v) ==
  classify_project_with(v, PROJECT_TYPE_KEYWORDS, PROJECT_SUBTYPE_KEYWORDS)

\* The stepwise call and the function agree on every input.
StepwiseAgrees ==
  pc = "done" => classify_project_of(project_detail) = [result |-> result, raised |-> raised]

(***************************************************************************)
(* classify_projects_in_csv, lines 194-226, and the pandas calls it makes. *)
(***************************************************************************)
\* Cell texts pd.read_csv reads as missing: '' and 'NA' (of its default list).
NA_VALUES == { <<>>, <<78, 65>> }

\* pd.read_csv: one cell text to its value.
read_cell(t) == IF t \in NA_VALUES THEN NaN ELSE Str(t)

\* DataFrame.to_csv: one value to its cell text; NaN is written as ''.
write_cell(v) == IF isinstance_str(v) THEN v.chars ELSE <<>>

\* pd.read_csv(input_file) of a readable file, line 207.
read_csv(file) ==
  [ columns |-> file.columns,
    rows |-> [i \in 1..Len(file.rows) |->
                [j \in 1..Len(file.rows[i]) |-> read_cell(file.rows[i][j])]] ]

\* df.to_csv(output_file, index=False, encoding='utf-8-sig'), line 220.
to_csv(frame) ==
  File(frame.columns,
       [i \in 1..Len(frame.rows) |->
          [j \in 1..Len(frame.rows[i]) |-> write_cell(frame.rows[i][j])]])

\* name in df.columns
has_column(columns, name) == \E j \in 1..Len(columns) : columns[j] = name

column_index(columns, name) == CHOOSE j \in 1..Len(columns) : columns[j] = name

\* df[name]
get_column(frame, name) ==
  [i \in 1..Len(frame.rows) |-> frame.rows[i][column_index(frame.columns, name)]]

\* df[name] = values: the column is replaced when there is one, else appended.
set_column(frame, name, values) ==
  IF has_column(frame.columns, name)
  THEN [ columns |-> frame.columns,
         rows |-> [i \in 1..Len(frame.rows) |->
                     [frame.rows[i] EXCEPT ![column_index(frame.columns, name)] = values[i]]] ]
  ELSE [ columns |-> Append(frame.columns, name),
         rows |-> [i \in 1..Len(frame.rows) |-> Append(frame.rows[i], values[i])] ]

\* Mutant: the description is taken from the last column, whatever its name.
detail_values_last(frame) ==
  [i \in 1..Len(frame.rows) |-> frame.rows[i][Len(frame.columns)]]

\* Line 214: df['project_detail']
detail_values(frame) == get_column(frame, "project_detail")

\* Mutant: both label columns are filled from the subtype labels.
type_labels_second(cs) == [i \in 1..Len(cs) |-> Str(cs[i].result[2])]

\* Line 215: [c[0] for c in classifications]
type_labels(cs) == [i \in 1..Len(cs) |-> Str(cs[i].result[1])]

\* Line 216: [c[1] for c in classifications]
subtype_labels(cs) == [i \in 1..Len(cs) |-> Str(cs[i].result[2])]

\* Mutant: the table is written over the input file.
write_target_input == input_file

\* Line 220: the path to_csv writes.
write_target == output_file

\* Mutant: the handler is `except ValueError`.
caught_value_error(exception) == exception = "ValueError"

\* Line 224: `except Exception` catches every exception the try block raises.
caught(exception) ==
  exception \in {"FileNotFoundError", "EmptyDataError", "ValueError", "KeyError",
                 "AttributeError", "OSError"}

\* Mutant: the handler returns the table it has.
except_value_df == "DataFrame"

\* Line 226: return None
except_value == "None"

\* Line 207: pd.read_csv(input_file)
batch_read_csv ==
  /\ bpc = "read_csv"
  /\ IF ~disk[input_file].exists
     THEN batch_raised' = "FileNotFoundError" /\ bpc' = "except" /\ UNCHANGED df
     ELSE IF disk[input_file].columns = <<>>
     THEN batch_raised' = "EmptyDataError" /\ bpc' = "except" /\ UNCHANGED df
     ELSE df' = read_csv(disk[input_file]) /\ bpc' = "check_column"
                                           /\ UNCHANGED batch_raised
  /\ UNCHANGED <<disk, input_file, output_file, ret, printed, disk_at_call, batch_log>>

\* Lines 210-211: the 'project_detail' column must be there.
batch_check_column ==
  /\ bpc = "check_column"
  /\ IF ~has_column(df.columns, "project_detail")
     THEN batch_raised' = "ValueError" /\ bpc' = "except"
     ELSE bpc' = "apply" /\ UNCHANGED batch_raised
  /\ UNCHANGED <<disk, input_file, output_file, df, ret, printed, disk_at_call,
                 batch_log>>

\* Lines 214-216: classify every row and set the two label columns.
batch_apply ==
  /\ bpc = "apply"
  /\ IF ~has_column(df.columns, "project_detail")
     THEN batch_raised' = "KeyError" /\ bpc' = "except" /\ UNCHANGED df
     ELSE
       LET details == detail_values(df)
           classifications == [i \in 1..Len(details) |-> classify_project_of(details[i])]
           failed == {i \in 1..Len(details) : classifications[i].raised # NoException}
       IN  IF failed # {}
           THEN /\ batch_raised' = classifications[CHOOSE i \in failed :
                                                     \A j \in failed : i <= j].raised
                /\ bpc' = "except"
                /\ UNCHANGED df
           ELSE /\ df' = set_column(set_column(df, "project_type",
                                               type_labels(classifications)),
                                    "project_subtype", subtype_labels(classifications))
                /\ bpc' = "to_csv"
                /\ UNCHANGED batch_raised
  /\ UNCHANGED <<disk, input_file, output_file, ret, printed, disk_at_call, batch_log>>

\* Lines 219-220: write the table when an output path was given.  The write
\* may fail, before the file is opened or after it was truncated.
batch_to_csv ==
  /\ bpc = "to_csv"
  /\ IF output_file = "None"
     THEN bpc' = "return" /\ UNCHANGED <<disk, batch_raised>>
     ELSE \/ /\ disk' = [disk EXCEPT ![write_target] = to_csv(df)]
             /\ bpc' = "return"
             /\ UNCHANGED batch_raised
          \/ /\ batch_raised' = "OSError"
             /\ bpc' = "except"
             /\ \/ UNCHANGED disk
                \/ disk' = [disk EXCEPT ![write_target] = File(<<>>, <<>>)]
  /\ UNCHANGED <<input_file, output_file, df, ret, printed, disk_at_call, batch_log>>

\* Line 222: return df
batch_return ==
  /\ bpc = "return"
  /\ ret' = "DataFrame"
  /\ bpc' = "returned"
  /\ UNCHANGED <<disk, input_file, output_file, df, printed, batch_raised,
                 disk_at_call, batch_log>>

\* Lines 224-226: report the failure and return None.
batch_except ==
  /\ bpc = "except"
  /\ IF caught(batch_raised)
     THEN printed' = batch_raised /\ ret' = except_value /\ bpc' = "returned"
     ELSE bpc' = "propagated" /\ UNCHANGED <<printed, ret>>
  /\ UNCHANGED <<disk, input_file, output_file, df, batch_raised, disk_at_call,
                 batch_log>>

(***************************************************************************)
(* The callers of the batch entry point (lines 236-239): a first call on   *)
(* in.csv, and a call on the file the call before wrote.                   *)
(***************************************************************************)
MaxRows == 2

MaxRuns == 2

OutputFiles == {"None", "in.csv", "out.csv"}

RegionCells ==
  { <<49436, 50872>>,   \* '서울'
    <<48512, 49328>> }  \* '부산'

DetailCells ==
  { <<>>,                                \* ''
    <<51060, 44288>>,                    \* '이관'
    <<49884, 49828, 53596>>,             \* '시스템'
    <<54924, 51032, 48708>> }            \* '회의비'

\* The label a table classified before may carry: '미분류'.
OldLabelCells == { <<48120, 48516, 47448>> }

RECURSIVE RowsOf(_, _)
RowsOf(rowset, n) ==
  IF n = 0 THEN {<<>>}
  ELSE LET shorter == RowsOf(rowset, n - 1)
       IN  shorter \cup {Append(rs, r) : rs \in shorter, r \in rowset}

InputFiles ==
  {NoFile, File(<<>>, <<>>)}
    \cup {File(<<"region">>, rs) :
            rs \in RowsOf({<<r>> : r \in RegionCells}, MaxRows)}
    \cup {File(<<"region", "project_detail">>, rs) :
            rs \in RowsOf({<<r, d>> : r \in RegionCells, d \in DetailCells}, MaxRows)}
    \cup {File(<<"project_detail", "project_type", "project_subtype", "region">>, rs) :
            rs \in RowsOf({<<d, l, l, r>> : d \in DetailCells, l \in OldLabelCells,
                                           r \in RegionCells}, MaxRows)}

InitBatch ==
  /\ project_detail = None
  /\ pc = "classify_project"
  /\ check_priority = TRUE
  /\ text = <<>>
  /\ scanned = 0
  /\ max_matches = 0
  /\ best_type = NoneKey
  /\ returned = NoneKey
  /\ project_type = NoneKey
  /\ project_subtype = NoneKey
  /\ result = NoResult
  /\ raised = NoException
  /\ history = <<>>
  /\ \E f \in InputFiles : disk = [p \in Paths |-> IF p = "in.csv" THEN f ELSE NoFile]
  /\ input_file = "in.csv"
  /\ output_file \in OutputFiles
  /\ bpc = "read_csv"
  /\ df = NoFrame
  /\ ret = "unset"
  /\ printed = ""
  /\ batch_raised = ""
  /\ disk_at_call = disk
  /\ batch_log = <<>>
  /\ workers_idle
  /\ processor_idle
  /\ filter_idle
  /\ app_idle

\* The entry point is called again, on the file the last call wrote.
batch_again ==
  /\ bpc = "returned"
  /\ ret = "DataFrame"
  /\ output_file # "None"
  /\ Len(batch_log) + 1 < MaxRuns
  /\ batch_log' = Append(batch_log, [input_file |-> input_file,
                                     output_file |-> output_file, df |-> df])
  /\ input_file' = output_file
  /\ output_file' \in OutputFiles
  /\ bpc' = "read_csv"
  /\ df' = NoFrame
  /\ ret' = "unset"
  /\ printed' = ""
  /\ batch_raised' = ""
  /\ disk_at_call' = disk
  /\ UNCHANGED disk

NextBatch ==
  \/ batch_read_csv /\ UNCHANGED <<frame_vars, history, worker_vars, processor_vars, filter_vars, app_vars>>
  \/ batch_check_column /\ UNCHANGED <<frame_vars, history, worker_vars, processor_vars, filter_vars, app_vars>>
  \/ batch_apply /\ UNCHANGED <<frame_vars, history, worker_vars, processor_vars, filter_vars, app_vars>>
  \/ batch_to_csv /\ UNCHANGED <<frame_vars, history, worker_vars, processor_vars, filter_vars, app_vars>>
  \/ batch_return /\ UNCHANGED <<frame_vars, history, worker_vars, processor_vars, filter_vars, app_vars>>
  \/ batch_except /\ UNCHANGED <<frame_vars, history, worker_vars, processor_vars, filter_vars, app_vars>>
  \/ batch_again /\ UNCHANGED <<frame_vars, history, worker_vars, processor_vars, filter_vars, app_vars>>

SpecBatch == InitBatch /\ [][NextBatch]_vars

(***************************************************************************)
(* The batch classification of lines 214-216 with its rows partitioned     *)
(* across workers.  Each worker calls classify_project on its rows, one    *)
(* row after the other; the calls of different workers interleave step by  *)
(* step.  One worker executes at a time: the state variables of the call   *)
(* above hold its locals, `suspended` holds the locals of the others.      *)
(***************************************************************************)
Workers == {"w1", "w2"}

MaxWorkerRows == 2

WorkerTexts ==
  { <<51060, 44288>>,                    \* '이관'
    <<49884, 49828, 53596>>,             \* '시스템'
    <<32, 48120, 50629, 47196, 46300>> } \* ' 미업로드'

WorkerInputs == {Str(t) : t \in WorkerTexts} \cup {NaN}

\* The locals of the call that is executing.
Frame ==
  [ project_detail |-> project_detail, pc |-> pc, check_priority |-> check_priority,
    text |-> text, scanned |-> scanned, max_matches |-> max_matches,
    best_type |-> best_type, returned |-> returned, project_type |-> project_type,
    project_subtype |-> project_subtype, result |-> result, raised |-> raised ]

\* The locals of a worker that has not called yet.
IdleFrame ==
  [ project_detail |-> None, pc |-> "idle", check_priority |-> TRUE,
    text |-> <<>>, scanned |-> 0, max_matches |-> 0,
    best_type |-> NoneKey, returned |-> NoneKey, project_type |-> NoneKey,
    project_subtype |-> NoneKey, result |-> NoResult, raised |-> NoException ]

\* Mutant: max_matches is one variable all the calls share.
resume_shared_max_matches(own, current) ==
  [own EXCEPT !.max_matches = current.max_matches]

\* Lines 113-116 and 137: the variables of classify_project and of
\* _find_matching_type are locals of the call, so a worker that resumes finds
\* its own.
resume(own, current) == own

InitWorkers ==
  /\ \E n \in 1..MaxWorkerRows :
       /\ dataset \in [1..n -> WorkerInputs]
       /\ owner \in [1..n -> Workers]
       /\ labels = [i \in 1..n |-> NoResult]
  /\ running \in Workers
  /\ suspended = [w \in Workers |-> IdleFrame]
  /\ row = [w \in Workers |-> 0]
  /\ project_detail = IdleFrame.project_detail
  /\ pc = IdleFrame.pc
  /\ check_priority = IdleFrame.check_priority
  /\ text = IdleFrame.text
  /\ scanned = IdleFrame.scanned
  /\ max_matches = IdleFrame.max_matches
  /\ best_type = IdleFrame.best_type
  /\ returned = IdleFrame.returned
  /\ project_type = IdleFrame.project_type
  /\ project_subtype = IdleFrame.project_subtype
  /\ result = IdleFrame.result
  /\ raised = IdleFrame.raised
  /\ history = <<>>
  /\ batch_idle
  /\ processor_idle
  /\ filter_idle
  /\ app_idle

\* The executing worker calls classify_project on one of its rows.
worker_call ==
  /\ pc = "idle"
  /\ \E i \in 1..Len(dataset) :
       /\ owner[i] = running
       /\ labels[i] = NoResult
       /\ row' = [row EXCEPT ![running] = i]
       /\ project_detail' = dataset[i]
  /\ pc' = "classify_project"
  /\ result' = NoResult
  /\ raised' = NoException
  /\ UNCHANGED <<check_priority, text, scanned, max_matches, best_type, returned,
                 project_type, project_subtype>>
  /\ UNCHANGED <<dataset, owner, labels, running, suspended, history, batch_vars,
                 processor_vars, filter_vars, app_vars>>

\* Lines 215-216: the pair the call returned is attached to the row.
worker_attach ==
  /\ pc = "done"
  /\ row[running] # 0
  /\ labels' = [labels EXCEPT ![row[running]] = result]
  /\ row' = [row EXCEPT ![running] = 0]
  /\ pc' = "idle"
  /\ UNCHANGED <<project_detail, check_priority, text, scanned, max_matches,
                 best_type, returned, project_type, project_subtype, result, raised>>
  /\ UNCHANGED <<dataset, owner, running, suspended, history, batch_vars,
                 processor_vars, filter_vars, app_vars>>

\* Another worker, one that has a call under way or a row left, executes.
switch ==
  /\ \E w \in Workers \ {running} :
       /\ \/ suspended[w].pc # "idle"
          \/ \E i \in 1..Len(dataset) : owner[i] = w /\ labels[i] = NoResult
       /\ running' = w
       /\ suspended' = [suspended EXCEPT ![running] = Frame, ![w] = IdleFrame]
       /\ LET own == resume(suspended[w], Frame)
          IN  /\ project_detail' = own.project_detail
              /\ pc' = own.pc
              /\ check_priority' = own.check_priority
              /\ text' = own.text
              /\ scanned' = own.scanned
              /\ max_matches' = own.max_matches
              /\ best_type' = own.best_type
              /\ returned' = own.returned
              /\ project_type' = own.project_type
              /\ project_subtype' = own.project_subtype
              /\ result' = own.result
              /\ raised' = own.raised
  /\ UNCHANGED <<dataset, owner, labels, row, history, batch_vars, processor_vars, filter_vars, app_vars>>

NextWorkers ==
  \/ Next
  \/ worker_call
  \/ worker_attach
  \/ switch

SpecWorkers == InitWorkers /\ [][NextWorkers]_vars

(***************************************************************************)
(* DataProcessor.get_processed_data, data_processor.py lines 58-98.  The   *)
(* table has the columns region, project_detail and budget_amount; the     *)
(* other columns line 82 names are there and well formed.                  *)
(***************************************************************************)
\* BudgetClassifier.classify_project, called at line 77: the module
\* budget_classifier is not in the repository.  It is taken to be the
\* keyword classification above, returning the type key and the subtype key
\* that DataProcessor looks up in its label tables.
BudgetClassifier_classify_project(v) ==
  IF is_missing(v) THEN <<"NO_PROJECT", "NO_PROJECT">>
  ELSE
    LET ty == find_matching_type_of(v.chars, PROJECT_TYPE_KEYWORDS, TRUE)
    IN  IF ty = NoneKey
        THEN IF unmatched_result(v) = NO_PROJECT_RESULT
             THEN <<"NO_PROJECT", "NO_PROJECT">>
             ELSE <<"UNCLASSIFIED", "UNCLASSIFIED">>
        ELSE IF ty = "NO_PROJECT" THEN <<"NO_PROJECT", "NO_PROJECT">>
        ELSE
          LET found == find_matching_type_of(v.chars, PROJECT_SUBTYPE_KEYWORDS[ty], FALSE)
          IN  <<ty, IF found = NoneKey
                    THEN dict_get(default_subtypes, ty, "UNCLASSIFIED")
                    ELSE found>>

\* A float that is not NaN.
Float(n) == [type |-> "float", chars |-> <<>>, repr |-> "", value |-> n]

is_digits(chars) ==
  /\ chars # <<>>
  /\ \A k \in 1..Len(chars) : chars[k] \in 48..57

\* float(s) of a string of digits.
RECURSIVE digits_value(_)
digits_value(chars) ==
  IF chars = <<>> THEN 0
  ELSE 10 * digits_value(SubSeq(chars, 1, Len(chars) - 1)) + (chars[Len(chars)] - 48)

\* pd.read_csv, line 66: a column all of whose cells are numbers or missing
\* is read as a numeric column, not as strings.
numeric_column(file, name) ==
  /\ file.rows # <<>>
  /\ \A i \in 1..Len(file.rows) :
       LET cell == file.rows[i][column_index(file.columns, name)]
       IN  cell \in NA_VALUES \/ is_digits(cell)

\* Line 69: .str.replace(',', '') of one value; a missing value stays missing.
str_replace_comma(v) ==
  IF isinstance_str(v)
  THEN Str(SelectSeq(v.chars, LAMBDA c : c # 44))
  ELSE v

\* Line 69: .astype(float) can convert the value.
is_float_text(v) == ~isinstance_str(v) \/ is_digits(v.chars)

\* Line 69: .astype(float) of one value.
astype_float(v) == IF isinstance_str(v) THEN Float(digits_value(v.chars)) ELSE v

\* Lines 91-93: .astype(str) of one value; NaN becomes 'nan'.
astype_str(v) == IF isinstance_str(v) THEN v ELSE Str(<<110, 97, 110>>)

\* Lines 72-73: df['project_type'] = ''
EmptyLabel == Str(<<>>)

\* Lines 78-79: self.PROJECT_TYPE_KR[project_type]; a dict raises KeyError
\* for a key it lacks.
lookup(table, key) ==
  IF key \in DOMAIN table
  THEN [raised |-> "", value |-> Str(table[key])]
  ELSE [raised |-> "KeyError", value |-> EmptyLabel]

\* Line 69: df['budget_amount'].str.replace(',', '')
column_str_replace(frame, name) ==
  set_column(frame, name,
             [i \in 1..Len(frame.rows) |-> str_replace_comma(get_column(frame, name)[i])])

\* Line 69: df['budget_amount'] = ....astype(float)
column_astype_float(frame, name) ==
  set_column(frame, name,
             [i \in 1..Len(frame.rows) |-> astype_float(get_column(frame, name)[i])])

\* Lines 82-96: df.astype({name: str})
column_astype_str(frame, name) ==
  set_column(frame, name,
             [i \in 1..Len(frame.rows) |-> astype_str(get_column(frame, name)[i])])

all_rows(frame, v) == [i \in 1..Len(frame.rows) |-> v]

\* Lines 66-73: read the file, convert the amounts, add the two empty columns.
get_processed_data ==
  /\ dp_pc = "get_processed_data"
  /\ IF ~csv.exists
     THEN dp_raised' = "FileNotFoundError" /\ dp_pc' = "raised" /\ UNCHANGED dp_df
     ELSE IF csv.columns = <<>>
     THEN dp_raised' = "EmptyDataError" /\ dp_pc' = "raised" /\ UNCHANGED dp_df
     ELSE IF numeric_column(csv, "budget_amount")
     THEN dp_raised' = "AttributeError" /\ dp_pc' = "raised" /\ UNCHANGED dp_df
     ELSE
       LET read == column_str_replace(read_csv(csv), "budget_amount")
       IN  IF \E i \in 1..Len(read.rows) :
                 ~is_float_text(get_column(read, "budget_amount")[i])
           THEN dp_raised' = "ValueError" /\ dp_pc' = "raised" /\ UNCHANGED dp_df
           ELSE
             LET amounts == column_astype_float(read, "budget_amount")
                 typed == set_column(amounts, "project_type",
                                     all_rows(amounts, EmptyLabel))
             IN  /\ dp_df' = set_column(typed, "project_subtype",
                                        all_rows(typed, EmptyLabel))
                 /\ dp_pc' = "for_idx_row"
                 /\ UNCHANGED dp_raised
  /\ idx' = 0
  /\ UNCHANGED csv

\* Lines 76-79: one row of the loop.
for_idx_row ==
  /\ dp_pc = "for_idx_row"
  /\ IF idx = Len(dp_df.rows)
     THEN dp_pc' = "astype" /\ UNCHANGED <<dp_df, idx, dp_raised>>
     ELSE
       LET i == idx + 1
           keys == BudgetClassifier_classify_project(get_column(dp_df, "project_detail")[i])
           type_label == lookup(DataProcessor_PROJECT_TYPE_KR, keys[1])
           subtype_label == lookup(DataProcessor_PROJECT_SUBTYPE_KR, keys[2])
           at(frame, name, v) ==
             set_column(frame, name, [get_column(frame, name) EXCEPT ![i] = v])
       IN  IF type_label.raised # ""
           THEN /\ dp_raised' = type_label.raised
                /\ dp_pc' = "raised"
                /\ UNCHANGED <<dp_df, idx>>
           ELSE IF subtype_label.raised # ""
           THEN /\ dp_df' = at(dp_df, "project_type", type_label.value)
                /\ dp_raised' = subtype_label.raised
                /\ dp_pc' = "raised"
                /\ UNCHANGED idx
           ELSE /\ dp_df' = at(at(dp_df, "project_type", type_label.value),
                               "project_subtype", subtype_label.value)
                /\ idx' = i
                /\ UNCHANGED <<dp_pc, dp_raised>>
  /\ UNCHANGED csv

\* Lines 82-98: the column types are set and the table is returned.
astype ==
  /\ dp_pc = "astype"
  /\ dp_df' = column_astype_str(column_astype_str(dp_df, "region"), "project_detail")
  /\ dp_pc' = "returned"
  /\ UNCHANGED <<csv, idx, dp_raised>>

AmountCells ==
  { <<>>,                      \* ''
    <<49, 44, 48, 48, 48>>,    \* '1,000'
    <<53, 48, 48>> }           \* '500'

ProcessorDetailCells ==
  { <<>>,                      \* ''
    <<51060, 44288>>,          \* '이관'
    <<49884, 49828, 53596>>,   \* '시스템'
    <<51204, 49884>>,          \* '전시'
    <<54924, 51032, 48708>> }  \* '회의비'

ProcessorFiles ==
  {NoFile, File(<<>>, <<>>)}
    \cup {File(<<"region", "project_detail", "budget_amount">>, rs) :
            rs \in RowsOf({<<r, d, a>> : r \in {<<49436, 50872>>},
                                        d \in ProcessorDetailCells,
                                        a \in AmountCells}, MaxRows)}

InitProcessor ==
  /\ project_detail = None
  /\ pc = "classify_project"
  /\ check_priority = TRUE
  /\ text = <<>>
  /\ scanned = 0
  /\ max_matches = 0
  /\ best_type = NoneKey
  /\ returned = NoneKey
  /\ project_type = NoneKey
  /\ project_subtype = NoneKey
  /\ result = NoResult
  /\ raised = NoException
  /\ history = <<>>
  /\ batch_idle
  /\ workers_idle
  /\ csv \in ProcessorFiles
  /\ dp_pc = "get_processed_data"
  /\ dp_df = NoFrame
  /\ idx = 0
  /\ dp_raised = ""
  /\ filter_idle
  /\ app_idle

NextProcessor ==
  \/ get_processed_data /\ UNCHANGED <<frame_vars, history, batch_vars, worker_vars, filter_vars, app_vars>>
  \/ for_idx_row /\ UNCHANGED <<frame_vars, history, batch_vars, worker_vars, filter_vars, app_vars>>
  \/ astype /\ UNCHANGED <<frame_vars, history, batch_vars, worker_vars, filter_vars, app_vars>>

SpecProcessor == InitProcessor /\ [][NextProcessor]_vars

(***************************************************************************)
(* DataProcessor.get_filtered_data (data_processor.py, lines 100-145) on a *)
(* table with the columns region, project_type and budget_amount.  A row   *)
(* is a record of its three cells; budget_amount is a float or NaN.        *)
(***************************************************************************)
\* A list or tuple argument.
List(items) == [type |-> "list", chars |-> <<>>, repr |-> "", items |-> items]

\* Lines 122 and 127: `selected and len(selected) > 0`; None and the empty
\* list are false.
filter_given(selected) ==
  /\ selected.type # "NoneType" /\ Len(selected.items) # 0
  /\ Len(selected.items) > 0

\* Line 132: `budget_range and len(budget_range) == 2`; None and the empty
\* tuple are false.
range_given(range) ==
  /\ range.type # "NoneType" /\ Len(range.items) # 0
  /\ Len(range.items) = 2

\* Series.isin(values) on one cell.
isin(cell, values) == \E k \in 1..Len(values) : values[k] = cell

\* Line 135: budget_amount >= min_budget; a comparison with NaN is False.
ge_float(cell, bound) == IF cell = NaN THEN FALSE ELSE cell.value >= bound

\* Mutant: the upper bound is exclusive.
le_float_exclusive(cell, bound) == IF cell = NaN THEN FALSE ELSE cell.value < bound

\* Line 136: budget_amount <= max_budget; a comparison with NaN is False.
le_float(cell, bound) == IF cell = NaN THEN FALSE ELSE cell.value <= bound

\* df[mask]: the rows whose mask entry is True, in their order.
RECURSIVE boolean_index(_, _)
boolean_index(rows, mask) ==
  IF rows = <<>> THEN <<>>
  ELSE (IF Head(mask) THEN <<Head(rows)>> ELSE <<>>)
         \o boolean_index(Tail(rows), Tail(mask))

\* Lines 116-119: filtered_df = df.copy()
get_filtered_data ==
  /\ fd_pc = "get_filtered_data"
  /\ filtered_df' = filter_df
  /\ fd_pc' = "regions"
  /\ UNCHANGED <<filter_df, selected_regions, selected_types, budget_range, fd_ret>>

\* Lines 122-124: the region filter.
filter_regions ==
  /\ fd_pc = "regions"
  /\ IF filter_given(selected_regions)
     THEN filtered_df' =
            boolean_index(filtered_df,
                          [k \in 1..Len(filtered_df) |->
                             isin(filtered_df[k].region, selected_regions.items)])
     ELSE UNCHANGED filtered_df
  /\ fd_pc' = "types"
  /\ UNCHANGED <<filter_df, selected_regions, selected_types, budget_range, fd_ret>>

\* Lines 127-129: the project type filter.
filter_types ==
  /\ fd_pc = "types"
  /\ IF filter_given(selected_types)
     THEN filtered_df' =
            boolean_index(filtered_df,
                          [k \in 1..Len(filtered_df) |->
                             isin(filtered_df[k].project_type, selected_types.items)])
     ELSE UNCHANGED filtered_df
  /\ fd_pc' = "budget"
  /\ UNCHANGED <<filter_df, selected_regions, selected_types, budget_range, fd_ret>>

\* Lines 132-138: the budget range filter.
filter_budget ==
  /\ fd_pc = "budget"
  /\ IF range_given(budget_range)
     THEN LET min_budget == budget_range.items[1]
              max_budget == budget_range.items[2]
          IN  filtered_df' =
                boolean_index(filtered_df,
                              [k \in 1..Len(filtered_df) |->
                                 /\ ge_float(filtered_df[k].budget_amount, min_budget)
                                 /\ le_float(filtered_df[k].budget_amount, max_budget)])
     ELSE UNCHANGED filtered_df
  /\ fd_pc' = "return"
  /\ UNCHANGED <<filter_df, selected_regions, selected_types, budget_range, fd_ret>>

\* Lines 141-145: return filtered_df
filter_return ==
  /\ fd_pc = "return"
  /\ fd_ret' = filtered_df
  /\ fd_pc' = "done"
  /\ UNCHANGED <<filter_df, selected_regions, selected_types, budget_range, filtered_df>>

MaxFilterRows == 2

TableRow(r, t, a) == [region |-> r, project_type |-> t, budget_amount |-> a]

FilterRows ==
  { TableRow(<<49436, 50872>>, DataProcessor_PROJECT_TYPE_KR["DIGITALIZATION"], Float(1)),
    TableRow(<<48512, 49328>>, DataProcessor_PROJECT_TYPE_KR["DIGITALIZATION"], Float(2)),
    TableRow(<<49436, 50872>>, DataProcessor_PROJECT_TYPE_KR["SYSTEM_MGMT"], Float(2)),
    TableRow(<<48512, 49328>>, DataProcessor_PROJECT_TYPE_KR["SYSTEM_MGMT"], Float(3)),
    TableRow(<<49436, 50872>>, DataProcessor_PROJECT_TYPE_KR["DIGITALIZATION"], NaN) }

InitFilter ==
  /\ project_detail = None
  /\ pc = "classify_project"
  /\ check_priority = TRUE
  /\ text = <<>>
  /\ scanned = 0
  /\ max_matches = 0
  /\ best_type = NoneKey
  /\ returned = NoneKey
  /\ project_type = NoneKey
  /\ project_subtype = NoneKey
  /\ result = NoResult
  /\ raised = NoException
  /\ history = <<>>
  /\ batch_idle
  /\ workers_idle
  /\ processor_idle
  /\ app_idle
  /\ fd_pc = "get_filtered_data"
  /\ filter_df \in RowsOf(FilterRows, MaxFilterRows)
  /\ selected_regions \in { None, List(<<>>), List(<< <<49436, 50872>> >>),
                            List(<< <<48512, 49328>>, <<49436, 50872>> >>) }
  /\ selected_types \in { None, List(<<>>),
                          List(<< DataProcessor_PROJECT_TYPE_KR["DIGITALIZATION"] >>) }
  /\ budget_range \in { None, List(<<>>), List(<<1, 2>>), List(<<2, 2>>), List(<<2>>) }
  /\ filtered_df = <<>>
  /\ fd_ret = <<>>

NextFilter ==
  \/ get_filtered_data /\ UNCHANGED <<frame_vars, history, batch_vars, worker_vars, processor_vars, app_vars>>
  \/ filter_regions /\ UNCHANGED <<frame_vars, history, batch_vars, worker_vars, processor_vars, app_vars>>
  \/ filter_types /\ UNCHANGED <<frame_vars, history, batch_vars, worker_vars, processor_vars, app_vars>>
  \/ filter_budget /\ UNCHANGED <<frame_vars, history, batch_vars, worker_vars, processor_vars, app_vars>>
  \/ filter_return /\ UNCHANGED <<frame_vars, history, batch_vars, worker_vars, processor_vars, app_vars>>

SpecFilter == InitFilter /\ [][NextFilter]_vars

(***************************************************************************)
(* The login session of app.py.  st.session_state is a dict that lives as  *)
(* long as the browser session; every interaction runs a script from top   *)
(* to bottom: app.py, or one of the pages of src/pages.  An action is one  *)
(* script run, an st.rerun() it ends in included.  The clock counts hours. *)
(***************************************************************************)
\* Line 69: timedelta(hours=12)
SESSION_HOURS == 12

\* A datetime, to the hour.
Datetime(h) == [type |-> "datetime", chars |-> <<>>, repr |-> "", hour |-> h]

\* Line 19: hashlib.sha256(password.encode()).hexdigest(); distinct passwords
\* of the model have distinct digests, and no digest is a password.
hash_password(password) == <<"sha256", password>>

\* st.secrets: the one account of the deployment, 'admin' with '123456'.
secrets ==
  [users |-> (<<97, 100, 109, 105, 110>> :> hash_password(<<49, 50, 51, 52, 53, 54>>))]

\* verify_login, lines 26-51.
verify_login(username, password) ==
  IF "users" \notin DOMAIN secrets THEN FALSE
  ELSE IF username \notin DOMAIN secrets.users THEN FALSE
  ELSE secrets.users[username] = hash_password(password)

\* `if key not in st.session_state: st.session_state[key] = value`
setdefault(state, key, value) ==
  IF key \in DOMAIN state THEN state ELSE state @@ (key :> value)

\* Lines 53-58: the three keys get their defaults.
initialised(state) ==
  setdefault(setdefault(setdefault(state, "authenticated", FALSE),
                        "login_time", None),
             "username", None)

\* logout(), lines 61-64.
logout(state) ==
  [state EXCEPT !["authenticated"] = FALSE,
                !["login_time"] = None,
                !["username"] = None]

\* Mutant: a session expires when 12 hours have passed, not after them.
elapsed_too_long_at_limit(t, login_time) == t - login_time.hour >= SESSION_HOURS

\* Line 69: datetime.now() - login_time > timedelta(hours=12)
elapsed_too_long(t, login_time) == t - login_time.hour > SESSION_HOURS

\* check_session_expired(), lines 67-74: its return value.
check_session_expired(state, t) ==
  truthy(state.login_time) /\ elapsed_too_long(t, state.login_time)

\* The outcome of a script run is the session state and the screen.
\* Lines 142-155 with no widget triggered: the run of app.py on a page load, a
\* rerun, or any interaction other than the two buttons.
plain_run(state0, t) ==
  LET state == initialised(state0)
  IN  IF ~state.authenticated THEN [state |-> state, rendered |-> {"login_form"}]
      ELSE IF check_session_expired(state, t)
           THEN [state |-> logout(state), rendered |-> {"warning", "login_form"}]
           ELSE [state |-> state, rendered |-> {"sidebar", "main"}]

\* login_page(), lines 115-131, with the form submitted.
login_page_submitted(state, t, username, password) ==
  IF verify_login(username, password)
  THEN plain_run([state EXCEPT !["authenticated"] = TRUE,
                               !["login_time"] = Datetime(t),
                               !["username"] = Str(username)], t)
  ELSE [state |-> state, rendered |-> {"login_form", "error"}]

\* The run of app.py that the login form's submit button starts.
submit_run(state0, t, username, password) ==
  LET state == initialised(state0)
  IN  IF ~state.authenticated
      THEN login_page_submitted(state, t, username, password)
      ELSE IF check_session_expired(state, t)
           THEN LET r == login_page_submitted(logout(state), t, username, password)
                IN  [state |-> r.state, rendered |-> r.rendered \cup {"warning"}]
           ELSE [state |-> state, rendered |-> {"sidebar", "main"}]

\* The run of app.py that the logout button starts (lines 150-153).
logout_run(state0, t) ==
  LET state == initialised(state0)
  IN  IF ~state.authenticated THEN [state |-> state, rendered |-> {"login_form"}]
      ELSE IF check_session_expired(state, t)
           THEN [state |-> logout(state), rendered |-> {"warning", "login_form"}]
           ELSE plain_run(logout(state), t)

MaxClock == 14

\* app.py is loaded or rerun.
run_app ==
  /\ LET r == plain_run(session_state, now)
     IN  /\ session_state' = r.state
         /\ rendered' = r.rendered
  /\ event' = "run"
  /\ UNCHANGED now

\* The login form on the screen is submitted.
submit_login ==
  /\ "login_form" \in rendered
  /\ \E username \in { <<97, 100, 109, 105, 110>>, <<103, 117, 101, 115, 116>> },  \* 'admin', 'guest'
        password \in { <<49, 50, 51, 52, 53, 54>>, <<97, 100, 109, 105, 110>> } : \* '123456', 'admin'

       LET r == submit_run(session_state, now, username, password)
       IN  /\ session_state' = r.state
           /\ rendered' = r.rendered
           /\ event' = IF verify_login(username, password) THEN "login" ELSE "login_failed"
  /\ UNCHANGED now

\* The logout button of the sidebar is pressed.
click_logout ==
  /\ "sidebar" \in rendered
  /\ LET r == logout_run(session_state, now)
     IN  /\ session_state' = r.state
         /\ rendered' = r.rendered
  /\ event' = "logout"
  /\ UNCHANGED now

\* A page of src/pages is opened: its script runs, app.py does not.  Page 1
\* (lines 15-17) sets 'authenticated' when the key is missing; the other
\* pages leave the three keys alone.
visit_page ==
  /\ \E page \in 1..5 :
       session_state' = IF page = 1
                        THEN setdefault(session_state, "authenticated", TRUE)
                        ELSE session_state
  /\ rendered' = {"page"}
  /\ event' = "page"
  /\ UNCHANGED now

\* An hour passes.
tick ==
  /\ now < MaxClock
  /\ now' = now + 1
  /\ UNCHANGED <<session_state, rendered, event>>

InitApp ==
  /\ project_detail = None
  /\ pc = "classify_project"
  /\ check_priority = TRUE
  /\ text = <<>>
  /\ scanned = 0
  /\ max_matches = 0
  /\ best_type = NoneKey
  /\ returned = NoneKey
  /\ project_type = NoneKey
  /\ project_subtype = NoneKey
  /\ result = NoResult
  /\ raised = NoException
  /\ history = <<>>
  /\ batch_idle
  /\ workers_idle
  /\ processor_idle
  /\ filter_idle
  /\ session_state = <<>>
  /\ now = 0
  /\ rendered = {}
  /\ event = "open"

NextApp ==
  \/ run_app /\ UNCHANGED <<frame_vars, history, batch_vars, worker_vars, processor_vars, filter_vars>>
  \/ submit_login /\ UNCHANGED <<frame_vars, history, batch_vars, worker_vars, processor_vars, filter_vars>>
  \/ click_logout /\ UNCHANGED <<frame_vars, history, batch_vars, worker_vars, processor_vars, filter_vars>>
  \/ visit_page /\ UNCHANGED <<frame_vars, history, batch_vars, worker_vars, processor_vars, filter_vars>>
  \/ tick /\ UNCHANGED <<frame_vars, history, batch_vars, worker_vars, processor_vars, filter_vars>>

SpecApp == InitApp /\ [][NextApp]_vars

(***************************************************************************)
(* classify_project on texts of cased letters: every text of at most       *)
(* MaxCaseLen characters over the letters of 'DB' and 'SW' in both cases   *)
(* and the small letter long s (U+017F), whose capital is 'S'.             *)
(***************************************************************************)
MaxCaseLen == 3

CaseLetters == {100, 68, 98, 66, 115, 83, 119, 87, 383}

SpecCase == InitOn(InputsOver({<<c>> : c \in CaseLetters}, MaxCaseLen)) /\ [][Next]_vars

(***************************************************************************)
(* classify_project on texts with keywords of several types and of several *)
(* subtypes of one type.                                                   *)
(***************************************************************************)
MaxOrderWords == 2

OrderWords ==
  { <<51221, 47532, 51060, 44288>>,   \* '정리이관'
    <<44368, 50977>>,                 \* '교육'
    <<50976, 51648, 48372, 49688>>,   \* '유지보수'
    <<68, 66>>,                       \* 'DB'
    <<48372, 51316>>,                 \* '보존'
    <<54924, 51032, 48708>> }         \* '회의비'

SpecOrder == InitOn(InputsOver(OrderWords, MaxOrderWords)) /\ [][Next]_vars

(***************************************************************************)
(* classify_project on texts that differ in keywords of subtype tables     *)
(* other than the selected one: '시설' is a subtype keyword of              *)
(* SPECIAL_PROJECT and of PRESERVATION and no type keyword, '운영' a        *)
(* subtype keyword of SYSTEM_MGMT and no type keyword.                     *)
(***************************************************************************)
MaxPairWords == 2

PairWords ==
  { <<49884, 49828, 53596>>,   \* '시스템'
    <<50868, 50689>>,          \* '운영'
    <<49884, 49444>>,          \* '시설'
    <<44368, 50977>>,          \* '교육'
    <<54924, 51032, 48708>> }  \* '회의비'

SpecPair == InitOn(InputsOver(PairWords, MaxPairWords)) /\ [][Next]_vars

(***************************************************************************)
(* classify_project on texts in which a keyword is repeated, a keyword     *)
(* lies inside another keyword of its subtype ('보안' in '문서보안'), and    *)
(* two subtypes of SYSTEM_MGMT have two keywords each.                     *)
(***************************************************************************)
MaxCountWords == 2

CountWords ==
  { <<48372, 50504>>,                        \* '보안'
    <<47928, 49436, 48372, 50504>>,          \* '문서보안'
    <<50976, 51648, 48372, 49688, 83, 87>>,  \* '유지보수SW'
    <<49884, 49828, 53596, 49436, 48260>>,   \* '시스템서버'
    <<54924, 51032, 48708>> }                \* '회의비'

SpecCount == InitOn(InputsOver(CountWords, MaxCountWords)) /\ [][Next]_vars

(***************************************************************************)
(* classify_project on texts with keywords that an earlier type claims:    *)
(* '기능개선' (SYSTEM_MGMT) contains '개선' (SPECIAL_PROJECT); '구축' and     *)
(* '메타데이터' are DIGITALIZATION keywords and subtype keywords of          *)
(* SYSTEM_MGMT and RECORDS_MGMT; '장비' is a SYSTEM_MGMT keyword and a      *)
(* subtype keyword of PRESERVATION.                                        *)
(***************************************************************************)
MaxShadowWords == 2

ShadowWords ==
  { <<44592, 45733, 44060, 49440>>,          \* '기능개선'
    <<44396, 52629>>,                        \* '구축'
    <<47700, 53440, 45936, 51060, 53552>>,   \* '메타데이터'
    <<51109, 48708>>,                        \* '장비'
    <<49884, 49828, 53596>>,                 \* '시스템'
    <<51221, 47532>>,                        \* '정리'
    <<48372, 51316>>,                        \* '보존'
    <<54924, 51032, 48708>> }                \* '회의비'

SpecShadow == InitOn(InputsOver(ShadowWords, MaxShadowWords)) /\ [][Next]_vars

(***************************************************************************)
(* Vocabulary of the properties.  They speak of the input and of the pair  *)
(* returned, not of the locals of the code.                                *)
(***************************************************************************)
Returned == pc = "done" /\ raised = NoException

IsString == isinstance_str(project_detail)

\* The lower-cased, whitespace-stripped value of a string input.
Normalized == strip(lower(project_detail.chars))

\* The three sentinel values: '', '사업없음', '미업로드'.
Sentinels ==
  { <<>>,
    <<49324, 50629, 50630, 51020>>,
    <<48120, 50629, 47196, 46300>> }

\* The label pair ('사업없음', '사업없음').
NoProjectPair ==
  << <<49324, 50629, 50630, 51020>>, <<49324, 50629, 50630, 51020>> >>

\* The label pair ('미분류', '미분류').
UnclassifiedPair == << <<48120, 48516, 47448>>, <<48120, 48516, 47448>> >>

\* The five substantive types in priority order.
TypeOrder ==
  <<"DIGITALIZATION", "RECORDS_MGMT", "SPECIAL_PROJECT", "SYSTEM_MGMT", "PRESERVATION">>

SubstantiveTypes == {TypeOrder[k] : k \in 1..Len(TypeOrder)}

\* The keywords of type T, and whether one of them occurs in the text.
TypeItems == {PROJECT_TYPE_KEYWORDS[k] : k \in 1..Len(PROJECT_TYPE_KEYWORDS)}

TypeKeywords(T) ==
  UNION { {e.keywords[j] : j \in 1..Len(e.keywords)} :
          e \in {i \in TypeItems : i.name = T} }

HasTypeKeyword(T) == \E kw \in TypeKeywords(T) : contains(lower(kw), Normalized)

\* The subtype table of type T, and the match count of its k-th subtype.
Subtypes(T) == PROJECT_SUBTYPE_KEYWORDS[T]

SubtypeNames(T) == {Subtypes(T)[k].name : k \in 1..Len(Subtypes(T))}

Count(T, k) ==
  Cardinality({j \in 1..Len(Subtypes(T)[k].keywords) :
                 contains(lower(Subtypes(T)[k].keywords[j]), Normalized)})

Counts(T) == {Count(T, k) : k \in 1..Len(Subtypes(T))}

MaxCount(T) == CHOOSE m \in Counts(T) : \A c \in Counts(T) : c <= m

\* The subtypes of T with the maximal count, and the earliest of them.
Winners(T) == {k \in 1..Len(Subtypes(T)) : Count(T, k) = MaxCount(T)}

Earliest(ks) == CHOOSE k \in ks : \A j \in ks : k <= j

IndexOf(T, S) == CHOOSE k \in 1..Len(Subtypes(T)) : Subtypes(T)[k].name = S

\* The pair returned has type T / subtype key S.
ReturnedType(T) == Returned /\ result[1] = PROJECT_TYPE_KR[T]

ReturnedSubtype(S) == Returned /\ result[2] = PROJECT_SUBTYPE_KR[S]

(***************************************************************************)
(* C1: classify_project is total.  From every input (any text, the empty   *)
(* and the whitespace-only ones included, and every non-string value) it   *)
(* reaches its return without raising, and what it returns is one pair     *)
(* (type label, subtype label) with the type label among the 7 values of   *)
(* PROJECT_TYPE_KR and the subtype label among those of PROJECT_SUBTYPE_KR.*)
(***************************************************************************)
C1_Total ==
  /\ raised = NoException
  /\ pc # "done" => ENABLED Next
  /\ pc = "done" =>
       /\ Cardinality(DOMAIN PROJECT_TYPE_KR) = 7
       /\ \E T \in DOMAIN PROJECT_TYPE_KR, S \in DOMAIN PROJECT_SUBTYPE_KR :
            result = <<PROJECT_TYPE_KR[T], PROJECT_SUBTYPE_KR[S]>>

\* A non-ASCII text with surrounding whitespace went through both label
\* lookups and the default-subtype lookup.
C1_Witness ==
  /\ Returned /\ IsString
  /\ Len(project_detail.chars) > Len(Normalized)
  /\ project_type \in SubstantiveTypes
  /\ returned = NoneKey
  /\ result = <<PROJECT_TYPE_KR[project_type], PROJECT_SUBTYPE_KR[project_subtype]>>

(***************************************************************************)
(* C2: type classification is first-match by fixed priority.  For every    *)
(* text that is not a sentinel, the type returned is the first type of     *)
(* DIGITALIZATION, RECORDS_MGMT, SPECIAL_PROJECT, SYSTEM_MGMT,             *)
(* PRESERVATION with a keyword in the text, however many keywords of       *)
(* later types occur.                                                      *)
(***************************************************************************)
C2_FirstMatchPriority ==
  (pc = "done" /\ IsString /\ Normalized \notin Sentinels) =>
    \A k \in 1..Len(TypeOrder) :
      (HasTypeKeyword(TypeOrder[k]) /\ \A j \in 1..(k - 1) : ~HasTypeKeyword(TypeOrder[j]))
        => ReturnedType(TypeOrder[k])

\* A text with '전자화' as its one DIGITALIZATION keyword and two
\* PRESERVATION keywords is DIGITALIZATION.
C2_Witness ==
  /\ Returned /\ IsString
  /\ {kw \in TypeKeywords("DIGITALIZATION") : contains(lower(kw), Normalized)}
       = {<<51204, 51088, 54868>>}
  /\ Cardinality({kw \in TypeKeywords("PRESERVATION") : contains(lower(kw), Normalized)}) >= 2
  /\ ReturnedType("DIGITALIZATION")

(***************************************************************************)
(* C3: sentinel precedence.  Every string whose lower-cased, stripped      *)
(* value is '', '사업없음' or '미업로드' returns ('사업없음', '사업없음'), *)
(* and no item of the keyword table has been examined when it does.        *)
(***************************************************************************)
C3_SentinelPrecedence ==
  (pc = "done" /\ IsString /\ Normalized \in Sentinels) =>
    /\ Returned
    /\ result = NoProjectPair
    /\ scanned = 0

\* A sentinel with surrounding whitespace was recognised inside
\* _find_matching_type.
C3_Witness ==
  /\ Returned /\ IsString
  /\ Normalized = <<48120, 50629, 47196, 46300>>
  /\ Len(project_detail.chars) > Len(Normalized)
  /\ returned = "NO_PROJECT"
  /\ result = NoProjectPair

(***************************************************************************)
(* C4: a non-string or missing input (None, NaN, a number) is treated      *)
(* exactly like the empty string: ('사업없음', '사업없음') is returned     *)
(* and nothing is raised.                                                  *)
(***************************************************************************)
C4_NonStringIsNoProject ==
  (pc = "done" /\ (~IsString \/ project_detail = Str(<<>>))) =>
    /\ Returned
    /\ result = NoProjectPair
    /\ text = <<>> /\ scanned = 0

\* NaN, which is truthy in Python, returned the NO_PROJECT pair.
C4_Witness ==
  /\ Returned
  /\ project_detail = NaN
  /\ result = NoProjectPair

(***************************************************************************)
(* C5: subtype classification is by highest match count.  When the type T  *)
(* returned is a substantive one and some keyword of T's subtype table     *)
(* occurs in the text, the subtype returned is a subtype of T whose count  *)
(* of matching keywords is at least that of every other subtype of T.      *)
(***************************************************************************)
C5_HighestCount ==
  \A T \in SubstantiveTypes :
    (ReturnedType(T) /\ IsString /\ MaxCount(T) > 0) =>
      \E k \in 1..Len(Subtypes(T)) :
        /\ ReturnedSubtype(Subtypes(T)[k].name)
        /\ \A j \in 1..Len(Subtypes(T)) : Count(T, k) >= Count(T, j)

\* A SYSTEM_MGMT text with one SYS_OPERATION keyword and two SYS_ENHANCEMENT
\* keywords is SYS_ENHANCEMENT.
C5_Witness ==
  /\ ReturnedType("SYSTEM_MGMT") /\ IsString
  /\ Count("SYSTEM_MGMT", IndexOf("SYSTEM_MGMT", "SYS_OPERATION")) = 1
  /\ Count("SYSTEM_MGMT", IndexOf("SYSTEM_MGMT", "SYS_ENHANCEMENT")) = 2
  /\ ReturnedSubtype("SYS_ENHANCEMENT")

(***************************************************************************)
(* C6: subtype tie-break.  When two or more subtypes of the type returned  *)
(* share the maximal non-zero count, the subtype returned is the one       *)
(* declared earliest; and during the scan of the subtype table the best    *)
(* subtype is the earliest examined one with the greatest count, so a      *)
(* later subtype replaces it only with a strictly greater count.           *)
(***************************************************************************)
C6_TieKeepsEarliest ==
  /\ \A T \in SubstantiveTypes :
       (ReturnedType(T) /\ IsString /\ MaxCount(T) > 0 /\ Cardinality(Winners(T)) >= 2)
         => ReturnedSubtype(Subtypes(T)[Earliest(Winners(T))].name)
  /\ (pc = "for_type_name" /\ ~check_priority) =>
       LET T == project_type
           seen == {Count(T, k) : k \in 1..scanned} \cup {0}
           top == CHOOSE m \in seen : \A c \in seen : c <= m
       IN  /\ max_matches = top
           /\ best_type = IF top = 0 THEN NoneKey
                          ELSE Subtypes(T)[Earliest({k \in 1..scanned : Count(T, k) = top})].name

\* A RECORDS_MGMT text with one RECORDS_ARRANGE keyword and one
\* RECORDS_TRANSFER keyword is RECORDS_ARRANGE.
C6_Witness ==
  /\ ReturnedType("RECORDS_MGMT") /\ IsString
  /\ Count("RECORDS_MGMT", IndexOf("RECORDS_MGMT", "RECORDS_ARRANGE")) = 1
  /\ Count("RECORDS_MGMT", IndexOf("RECORDS_MGMT", "RECORDS_TRANSFER")) = 1
  /\ MaxCount("RECORDS_MGMT") = 1
  /\ ReturnedSubtype("RECORDS_ARRANGE")

(***************************************************************************)
(* C7: default-subtype fallback.  A text that selects type T and contains  *)
(* no keyword of any subtype of T gets T's default (DIGITALIZATION ->      *)
(* PAPER_DIGITIZATION, RECORDS_MGMT -> RECORDS_ARRANGE, SPECIAL_PROJECT -> *)
(* CONSULTING, SYSTEM_MGMT -> SYS_OPERATION, PRESERVATION -> STORAGE_MGMT);*)
(* and the default is returned only then or when it wins the count.        *)
(***************************************************************************)
ClaimedDefault ==
  [ DIGITALIZATION  |-> "PAPER_DIGITIZATION",
    RECORDS_MGMT    |-> "RECORDS_ARRANGE",
    SPECIAL_PROJECT |-> "CONSULTING",
    SYSTEM_MGMT     |-> "SYS_OPERATION",
    PRESERVATION    |-> "STORAGE_MGMT" ]

C7_DefaultSubtype ==
  \A T \in SubstantiveTypes :
    (ReturnedType(T) /\ IsString) =>
      /\ MaxCount(T) = 0 => ReturnedSubtype(ClaimedDefault[T])
      /\ ReturnedSubtype(ClaimedDefault[T]) =>
           \/ MaxCount(T) = 0
           \/ Count(T, IndexOf(T, ClaimedDefault[T])) = MaxCount(T)

\* A PRESERVATION text without any PRESERVATION subtype keyword got
\* STORAGE_MGMT, the third subtype of its table.
C7_Witness ==
  /\ ReturnedType("PRESERVATION") /\ IsString
  /\ MaxCount("PRESERVATION") = 0
  /\ returned = NoneKey
  /\ ReturnedSubtype("STORAGE_MGMT")

(***************************************************************************)
(* C8 as stated: classify_project('시스템') returns                        *)
(* ('시스템 관리', '시스템 운영/유지보수'), type SYSTEM_MGMT with subtype  *)
(* SYS_OPERATION.                                                          *)
(***************************************************************************)
C8_BareSystemIsOperation ==
  (pc = "done" /\ project_detail = Str(<<49884, 49828, 53596>>)) =>
    /\ Returned
    /\ result = << <<49884, 49828, 53596, 32, 44288, 47532>>,
                  <<49884, 49828, 53596, 32, 50868, 50689, 47, 50976, 51648, 48372, 49688>> >>

\* The one keyword occurring in the text, at either level, is '시스템'.
OnlySystemKeyword ==
  /\ contains(<<49884, 49828, 53596>>, Normalized)
  /\ \A T \in SubstantiveTypes : \A kw \in TypeKeywords(T) :
       contains(lower(kw), Normalized) => kw = <<49884, 49828, 53596>>
  /\ \A k \in 1..Len(Subtypes("SYSTEM_MGMT")) :
       \A j \in 1..Len(Subtypes("SYSTEM_MGMT")[k].keywords) :
         contains(lower(Subtypes("SYSTEM_MGMT")[k].keywords[j]), Normalized)
           => Subtypes("SYSTEM_MGMT")[k].keywords[j] = <<49884, 49828, 53596>>

(***************************************************************************)
(* C8, amended: a text whose only keyword match is a bare '시스템' is      *)
(* classified SYSTEM_MGMT with subtype INFRA_ESTABLISH, '시스템' being a   *)
(* keyword of INFRA_ESTABLISH: classify_project('시스템') returns          *)
(* ('시스템 관리', '인프라 구축').                                         *)
(***************************************************************************)
C8_BareSystemIsInfra ==
  (pc = "done" /\ IsString /\ OnlySystemKeyword) =>
    /\ Returned
    /\ result = << <<49884, 49828, 53596, 32, 44288, 47532>>,
                  <<51064, 54532, 46972, 32, 44396, 52629>> >>

\* classify_project('시스템') is not the default: the scan of the SYSTEM_MGMT
\* subtypes found INFRA_ESTABLISH with one match.
C8_Witness ==
  /\ Returned
  /\ project_detail = Str(<<49884, 49828, 53596>>)
  /\ returned = "INFRA_ESTABLISH"
  /\ max_matches = 1
  /\ ReturnedSubtype("INFRA_ESTABLISH")

(***************************************************************************)
(* C9: unclassified fallback.  A string with no keyword of any of the five *)
(* type keyword lists, whose normalized value is not a sentinel, returns   *)
(* ('미분류', '미분류'); and the UNCLASSIFIED type is returned for such    *)
(* strings only.                                                           *)
(***************************************************************************)
C9_UnclassifiedFallback ==
  pc = "done" =>
    LET unmatched == /\ IsString
                     /\ Normalized \notin Sentinels
                     /\ \A T \in SubstantiveTypes : ~HasTypeKeyword(T)
    IN  /\ unmatched => (Returned /\ result = UnclassifiedPair)
        /\ (Returned /\ result[1] = UnclassifiedPair[1]) => unmatched

\* A text with '회의비' and more, none of it a keyword, is UNCLASSIFIED.
C9_Witness ==
  /\ Returned /\ IsString
  /\ contains(<<54924, 51032, 48708>>, Normalized)
  /\ Len(Normalized) > 3
  /\ scanned = Len(PROJECT_TYPE_KEYWORDS)
  /\ result = UnclassifiedPair

(***************************************************************************)
(* C10: parent consistency.  In every pair returned the subtype belongs to *)
(* the subtype table of the type: a substantive type comes with one of its *)
(* own subtypes, the NO_PROJECT subtype comes exactly with the NO_PROJECT  *)
(* type and the UNCLASSIFIED subtype exactly with the UNCLASSIFIED type.   *)
(***************************************************************************)
C10_ParentConsistency ==
  Returned =>
    /\ \A T \in SubstantiveTypes :
         result[1] = PROJECT_TYPE_KR[T] =>
           \E S \in SubtypeNames(T) : result[2] = PROJECT_SUBTYPE_KR[S]
    /\ result[2] = PROJECT_SUBTYPE_KR["NO_PROJECT"]
         <=> result[1] = PROJECT_TYPE_KR["NO_PROJECT"]
    /\ result[2] = PROJECT_SUBTYPE_KR["UNCLASSIFIED"]
         <=> result[1] = PROJECT_TYPE_KR["UNCLASSIFIED"]

\* A DIGITALIZATION text that also holds '시스템', a keyword of a SYSTEM_MGMT
\* subtype, got a DIGITALIZATION subtype.
C10_Witness ==
  /\ ReturnedType("DIGITALIZATION") /\ IsString
  /\ contains(<<49884, 49828, 53596>>, Normalized)
  /\ project_subtype \in SubtypeNames("DIGITALIZATION")
  /\ ReturnedSubtype(project_subtype)

(***************************************************************************)
(* C11: classify_project is deterministic.  Two calls with the same input  *)
(* return the same pair, whatever inputs were classified between them and  *)
(* whatever those calls left in the locals; no call raises.                *)
(***************************************************************************)
C11_SameInputSameResult ==
  pc = "done" =>
    /\ raised = NoException
    /\ \A k \in 1..Len(history) :
         history[k].detail = project_detail =>
           /\ history[k].result = result
           /\ history[k].raised = raised

\* A text classified to a substantive pair, then another text with another
\* pair, then the first text again with the first pair.
C11_Witness ==
  /\ Returned /\ IsString
  /\ Len(history) = 2
  /\ history[1].detail = project_detail
  /\ history[2].detail # project_detail
  /\ project_type \in SubstantiveTypes
  /\ history[2].result \notin {result, NoProjectPair, UnclassifiedPair}
  /\ history[1].result = result

(***************************************************************************)
(* Vocabulary of the batch claims.                                         *)
(***************************************************************************)
\* The table the call read: the input file as it was when the call began.
InputTable == read_csv(disk_at_call[input_file])

InputReadable ==
  /\ disk_at_call[input_file].exists
  /\ disk_at_call[input_file].columns # <<>>

InputHasDetail == has_column(disk_at_call[input_file].columns, "project_detail")

BatchOver == bpc \in {"returned", "propagated"}

BatchSucceeded == bpc = "returned" /\ ret = "DataFrame"

BatchAborted == bpc = "returned" /\ ret = "None"

LabelColumns == {"project_type", "project_subtype"}

(***************************************************************************)
(* C12: when the input table has no 'project_detail' column, the call      *)
(* reports the failure and returns None; the table it holds is the input   *)
(* as read, with no row classified and no label column added, and no file  *)
(* is written, even when an output path was given.                         *)
(***************************************************************************)
C12_MissingColumnFails ==
  (BatchOver /\ InputReadable /\ ~InputHasDetail) =>
    /\ bpc = "returned"
    /\ ret = "None"
    /\ printed = "ValueError"
    /\ df = InputTable
    /\ \A c \in LabelColumns : ~has_column(df.columns, c)
    /\ disk = disk_at_call

\* A two-row table without the column, with an output path given.
C12_Witness ==
  /\ BatchAborted
  /\ InputReadable /\ ~InputHasDetail
  /\ Len(InputTable.rows) = 2
  /\ output_file = "out.csv"
  /\ ~disk["out.csv"].exists

(***************************************************************************)
(* C13: a successful call attaches exactly the two columns 'project_type'  *)
(* and 'project_subtype'; each row's pair is classify_project of that      *)
(* row's 'project_detail'; the number and order of the rows and every      *)
(* other field of every row, 'project_detail' included, are unchanged.     *)
(***************************************************************************)
C13_BatchFrame ==
  BatchSucceeded =>
    LET old == InputTable
        kept == {j \in 1..Len(old.columns) : old.columns[j] \notin LabelColumns}
    IN  /\ Len(df.rows) = Len(old.rows)
        /\ {df.columns[j] : j \in 1..Len(df.columns)}
             = {old.columns[j] : j \in 1..Len(old.columns)} \cup LabelColumns
        /\ Len(df.columns)
             = Len(old.columns)
                 + Cardinality({c \in LabelColumns : ~has_column(old.columns, c)})
        /\ \A j \in 1..Len(old.columns) : df.columns[j] = old.columns[j]
        /\ \A i \in 1..Len(old.rows) :
             /\ \A j \in kept : df.rows[i][j] = old.rows[i][j]
             /\ LET pair == classify_project_of(get_column(old, "project_detail")[i])
                IN  /\ pair.raised = NoException
                    /\ get_column(df, "project_type")[i] = Str(pair.result[1])
                    /\ get_column(df, "project_subtype")[i] = Str(pair.result[2])

\* Two rows classified to different pairs, one of them substantive, in a
\* table that has another column.
C13_Witness ==
  /\ BatchSucceeded
  /\ Len(df.rows) = 2
  /\ has_column(df.columns, "region")
  /\ get_column(df, "project_type")[1] # get_column(df, "project_type")[2]
  /\ get_column(df, "project_type")[1] # get_column(df, "project_subtype")[1]
  /\ get_column(df, "project_detail")[2] = NaN
  /\ get_column(df, "region")[1] # get_column(df, "region")[2]

(***************************************************************************)
(* C14: the batch classification is idempotent.  A call on the table a     *)
(* call before wrote, which already carries the two label columns, yields  *)
(* label columns identical to those of the call before.                    *)
(***************************************************************************)
C14_BatchIdempotent ==
  (BatchSucceeded /\ batch_log # <<>>) =>
    LET first == batch_log[Len(batch_log)].df
    IN  /\ \A c \in LabelColumns : get_column(df, c) = get_column(first, c)
        /\ df.columns = first.columns

\* The second call on a two-row table whose rows have different labels.
C14_Witness ==
  /\ BatchSucceeded
  /\ Len(batch_log) = 1
  /\ input_file = "out.csv"
  /\ Len(df.rows) = 2
  /\ get_column(df, "project_type")[1] # get_column(df, "project_type")[2]
  /\ get_column(df, "project_type")[2] # get_column(df, "project_subtype")[2]
  /\ get_column(batch_log[1].df, "project_detail")[1] # NaN

(***************************************************************************)
(* C15: on a successful call with an output path, the file at that path    *)
(* holds the augmented table, which is also returned, and no other file    *)
(* changes; with no output path no file changes and the augmented table is *)
(* returned; the input file changes only when the output path equals it.   *)
(***************************************************************************)
C15_OutputPath ==
  BatchSucceeded =>
    /\ \A c \in LabelColumns : has_column(df.columns, c)
    /\ IF output_file = "None"
       THEN disk = disk_at_call
       ELSE /\ disk[output_file] = to_csv(df)
            /\ read_csv(disk[output_file]).columns = df.columns
            /\ \A p \in Paths \ {output_file} : disk[p] = disk_at_call[p]
    /\ output_file # input_file => disk[input_file] = disk_at_call[input_file]

\* A two-row table written to another path than the input's.
C15_Witness ==
  /\ BatchSucceeded
  /\ output_file = "out.csv"
  /\ input_file = "in.csv"
  /\ ~disk_at_call["out.csv"].exists
  /\ disk["out.csv"].exists
  /\ Len(disk["out.csv"].rows) = 2
  /\ Len(disk["out.csv"].columns) = Len(disk["in.csv"].columns) + 2

(***************************************************************************)
(* C16: the batch entry point never propagates an exception, and it is     *)
(* aborted (reports a failure and returns None) only by a structurally     *)
(* broken input file or by a failure of writing the output file after all  *)
(* rows were classified; no row content aborts it.                         *)
(***************************************************************************)
C16_AbortCauses ==
  /\ bpc # "propagated"
  /\ BatchAborted =>
       /\ printed = batch_raised
       /\ \/ ~InputReadable
          \/ ~InputHasDetail
          \/ /\ batch_raised = "OSError"
             /\ output_file # "None"
             /\ \A c \in LabelColumns : has_column(df.columns, c)
  /\ (BatchOver /\ InputReadable /\ InputHasDetail /\ output_file = "None") =>
       BatchSucceeded

\* The call aborted by the write although the input was sound.
C16_Witness ==
  /\ BatchAborted
  /\ InputReadable /\ InputHasDetail
  /\ batch_raised = "OSError"
  /\ Len(df.rows) = 2
  /\ disk[output_file] = File(<<>>, <<>>)

\* The statement as claimed: only a structurally broken input file aborts.
C16_OnlyBrokenInputAborts ==
  /\ bpc # "propagated"
  /\ BatchAborted => (~InputReadable \/ ~InputHasDetail)

(***************************************************************************)
(* C17: rows are independent under parallel classification.  Whatever the  *)
(* partition of the rows across the workers and whatever the interleaving  *)
(* of their calls, the pair attached to a row is classify_project of that  *)
(* row's own description, so the label columns are those of the            *)
(* sequential row-by-row run; no call raises.                              *)
(***************************************************************************)
C17_RowsIndependent ==
  /\ pc = "done" => raised = NoException
  /\ \A i \in 1..Len(labels) :
       labels[i] # NoResult => labels[i] = classify_project_of(dataset[i]).result
  /\ (pc = "done" /\ running \in Workers /\ row[running] # 0) =>
       result = classify_project_of(dataset[row[running]]).result

\* A worker's call has returned a substantive pair while the call of the
\* other worker, on another text, is suspended inside its subtype loop with a
\* match already counted.
C17_Witness ==
  /\ running \in Workers
  /\ Len(dataset) = 2
  /\ dataset[1] # dataset[2]
  /\ pc = "done"
  /\ row[running] = 2
  /\ result \notin {NoProjectPair, UnclassifiedPair}
  /\ \E w \in Workers \ {running} :
       /\ row[w] = 1
       /\ suspended[w].pc = "for_type_name"
       /\ ~suspended[w].check_priority
       /\ suspended[w].max_matches > 0
       /\ suspended[w].project_type # project_type

(***************************************************************************)
(* C18: as claimed, every key that both ProjectClassifier's and            *)
(* DataProcessor's label tables have is given the identical label by both: *)
(* the label classify_project returns for a type or subtype key is the     *)
(* label DataProcessor's table has for that key.  The tables of the code   *)
(* do not satisfy it: 'DIGITALIZATION' has two different labels.           *)
(***************************************************************************)
C18_SameLabelInEveryTable ==
  /\ \A k \in DOMAIN PROJECT_TYPE_KR \cap DOMAIN DataProcessor_PROJECT_TYPE_KR :
       ReturnedType(k) => result[1] = DataProcessor_PROJECT_TYPE_KR[k]
  /\ \A k \in DOMAIN PROJECT_SUBTYPE_KR \cap DOMAIN DataProcessor_PROJECT_SUBTYPE_KR :
       ReturnedSubtype(k) => result[2] = DataProcessor_PROJECT_SUBTYPE_KR[k]

\* classify_project has returned the label '전자화 사업' that DataProcessor's
\* table does not have for any key.
C18_Witness ==
  /\ ReturnedType("DIGITALIZATION")
  /\ result[1] # DataProcessor_PROJECT_TYPE_KR["DIGITALIZATION"]
  /\ \A k \in DOMAIN DataProcessor_PROJECT_TYPE_KR :
       DataProcessor_PROJECT_TYPE_KR[k] # result[1]

(***************************************************************************)
(* C19: as claimed, DataProcessor's label tables have an entry for each of *)
(* the 7 type keys and for the subtype key of every row, so that the       *)
(* lookups of get_processed_data never fail and every row of the table it  *)
(* returns has a type label and a subtype label.  The code does not        *)
(* satisfy it: the tables lack 'NO_PROJECT', 'UNCLASSIFIED' and five       *)
(* subtype keys, and the lookup raises KeyError.                           *)
(***************************************************************************)
C19_EveryRowLabelled ==
  /\ dp_raised # "KeyError"
  /\ dp_pc \in {"astype", "returned"} =>
       \A i \in 1..Len(dp_df.rows) :
         /\ get_column(dp_df, "project_type")[i] # EmptyLabel
         /\ get_column(dp_df, "project_subtype")[i] # EmptyLabel

\* The loop has labelled the first row, has set the type label of the second
\* and stopped on its subtype key: the table is left half labelled.
C19_Witness ==
  /\ dp_pc = "raised"
  /\ dp_raised = "KeyError"
  /\ Len(dp_df.rows) = 2
  /\ idx = 1
  /\ get_column(dp_df, "project_subtype")[1] # EmptyLabel
  /\ get_column(dp_df, "project_type")[2] # EmptyLabel
  /\ get_column(dp_df, "project_subtype")[2] = EmptyLabel

(***************************************************************************)
(* C20: sentinels are recognised by whole-value equality.  A string that   *)
(* contains '사업없음' or '미업로드' together with other non-whitespace text  *)
(* is never classified NO_PROJECT: it goes through keyword matching and is *)
(* UNCLASSIFIED when no type keyword occurs in it.  For string inputs the  *)
(* result is NO_PROJECT if and only if the normalized value is exactly     *)
(* '', '사업없음' or '미업로드'.                                             *)
(***************************************************************************)
C20_SentinelIsWholeValue ==
  (pc = "done" /\ IsString) =>
    /\ raised = NoException
    /\ result = NoProjectPair <=> Normalized \in Sentinels
    /\ (/\ \E s \in Sentinels \ {<<>>} : contains(s, Normalized)
        /\ Normalized \notin Sentinels) =>
         /\ result # NoProjectPair
         /\ (\A T \in SubstantiveTypes : ~HasTypeKeyword(T)) => result = UnclassifiedPair
         /\ (\E T \in SubstantiveTypes : HasTypeKeyword(T)) =>
              \E T \in SubstantiveTypes : HasTypeKeyword(T) /\ ReturnedType(T)

\* '회의비사업없음': a sentinel inside other text, no type keyword, UNCLASSIFIED.
C20_Witness ==
  /\ Returned /\ IsString
  /\ Normalized = <<54924, 51032, 48708, 49324, 50629, 50630, 51020>>
  /\ result = UnclassifiedPair

(***************************************************************************)
(* Vocabulary of the case claims: str.upper() on one code point of the     *)
(* texts, and the texts that differ from the argument in the case of one   *)
(* character.                                                              *)
(***************************************************************************)
upper_char(c) ==
  IF c \in 97..122 THEN c - 32
  ELSE IF c = 383 THEN 83
  ELSE c

IsAsciiLetter(c) == c \in (65..90) \cup (97..122)

\* The argument with the case of its k-th character changed.
CaseChanged(k) ==
  LET c == project_detail.chars[k]
  IN  {Str([project_detail.chars EXCEPT ![k] = d]) :
         d \in {lower_char(c), upper_char(c)} \ {c}}

Outcome == [result |-> result, raised |-> raised]

(***************************************************************************)
(* C21: matching is case-insensitive at both levels for ASCII letters, the *)
(* only cased characters of the keyword tables: changing the case of any   *)
(* ASCII letter of a text does not change the pair classify_project        *)
(* returns, and two texts with the same str.lower() get the same pair.     *)
(***************************************************************************)
C21_AsciiCaseInsensitive ==
  (pc = "done" /\ IsString) =>
    /\ raised = NoException
    /\ \A k \in 1..Len(project_detail.chars) :
         IsAsciiLetter(project_detail.chars[k]) =>
           \A v \in CaseChanged(k) : classify_project_of(v) = Outcome
    /\ classify_project_of(Str(lower(project_detail.chars))) = Outcome

\* 'Sw': a text with letters of both cases classified SYSTEM_MGMT with the
\* subtype SYS_OPERATION, through the keyword 'SW' at both levels.
C21_Witness ==
  /\ Returned /\ IsString
  /\ project_detail.chars = <<83, 119>>
  /\ ReturnedType("SYSTEM_MGMT")
  /\ ReturnedSubtype("SYS_OPERATION")

\* The statement as claimed: changing the case of any character, of whatever
\* alphabet, does not change the pair.
C21_AnyCaseInsensitive ==
  (pc = "done" /\ IsString) =>
    \A k \in 1..Len(project_detail.chars) :
      \A v \in CaseChanged(k) : classify_project_of(v) = Outcome

(***************************************************************************)
(* Vocabulary of the order claims: the tables with two neighbouring        *)
(* keywords of one list exchanged (such exchanges generate every           *)
(* permutation of a list), with a list reversed, and with one entry moved  *)
(* to the front.                                                           *)
(***************************************************************************)
Exchanged(seq, j) == [seq EXCEPT ![j] = seq[j + 1], ![j + 1] = seq[j]]

Reversed(seq) == [j \in 1..Len(seq) |-> seq[Len(seq) + 1 - j]]

\* The orders of one keyword list the check goes through.
Reorderings(keywords) ==
  {Exchanged(keywords, j) : j \in 1..(Len(keywords) - 1)} \cup {Reversed(keywords)}

\* An ordered dict with the keyword list of one entry reordered.
WithKeywordsReordered(dict) ==
  UNION {{[dict EXCEPT ![k].keywords = ks] : ks \in Reorderings(dict[k].keywords)} :
         k \in 1..Len(dict)}

\* The subtype tables with the keyword list of one subtype reordered.
SubtypeTablesReordered ==
  UNION {{[PROJECT_SUBTYPE_KEYWORDS EXCEPT ![T] = d] :
            d \in WithKeywordsReordered(PROJECT_SUBTYPE_KEYWORDS[T])} :
         T \in SubstantiveTypes}

\* An ordered dict with its k-th entry moved to the front.
MovedToFront(dict, k) ==
  <<dict[k]>> \o SubSeq(dict, 1, k - 1) \o SubSeq(dict, k + 1, Len(dict))

(***************************************************************************)
(* C22: the order of the keywords inside a list is insignificant:          *)
(* permuting the keywords of any single type list or subtype list leaves   *)
(* the result of classify_project unchanged for every input.  The order of *)
(* the entries is significant: with a type that has a keyword in the text  *)
(* moved to the front of the type table that type is returned, and with a  *)
(* subtype that has the most matches moved to the front of the selected    *)
(* type's table that subtype is returned.                                  *)
(***************************************************************************)
C22_KeywordOrderInsignificant ==
  (pc = "done" /\ IsString) =>
    /\ raised = NoException
    /\ \A types \in WithKeywordsReordered(PROJECT_TYPE_KEYWORDS) :
         classify_project_with(project_detail, types, PROJECT_SUBTYPE_KEYWORDS) = Outcome
    /\ \A subtypes \in SubtypeTablesReordered :
         classify_project_with(project_detail, PROJECT_TYPE_KEYWORDS, subtypes) = Outcome
    /\ Normalized \notin Sentinels =>
         \A k \in 1..Len(PROJECT_TYPE_KEYWORDS) :
           HasTypeKeyword(PROJECT_TYPE_KEYWORDS[k].name) =>
             classify_project_with(project_detail,
                                   MovedToFront(PROJECT_TYPE_KEYWORDS, k),
                                   PROJECT_SUBTYPE_KEYWORDS).result[1]
               = PROJECT_TYPE_KR[PROJECT_TYPE_KEYWORDS[k].name]
    /\ \A T \in SubstantiveTypes :
         ReturnedType(T) =>
           \A k \in Winners(T) :
             MaxCount(T) > 0 =>
               classify_project_with(
                   project_detail, PROJECT_TYPE_KEYWORDS,
                   [PROJECT_SUBTYPE_KEYWORDS EXCEPT ![T] = MovedToFront(@, k)]).result[2]
                 = PROJECT_SUBTYPE_KR[Subtypes(T)[k].name]

\* '정리이관교육': keywords of two types and a tie of two subtypes.  The
\* result is that of the earlier type and of the earlier subtype; with the
\* later type, or the later subtype, moved to the front it is another.
C22_Witness ==
  /\ Returned /\ IsString
  /\ ReturnedType("RECORDS_MGMT")
  /\ HasTypeKeyword("SPECIAL_PROJECT")
  /\ ReturnedSubtype("RECORDS_ARRANGE")
  /\ Winners("RECORDS_MGMT") = {IndexOf("RECORDS_MGMT", "RECORDS_ARRANGE"),
                                IndexOf("RECORDS_MGMT", "RECORDS_TRANSFER")}
  /\ \E k \in 1..Len(PROJECT_TYPE_KEYWORDS) :
       classify_project_with(project_detail, MovedToFront(PROJECT_TYPE_KEYWORDS, k),
                             PROJECT_SUBTYPE_KEYWORDS) # Outcome
  /\ classify_project_with(
         project_detail, PROJECT_TYPE_KEYWORDS,
         [PROJECT_SUBTYPE_KEYWORDS EXCEPT
            !["RECORDS_MGMT"] = MovedToFront(@, IndexOf("RECORDS_MGMT", "RECORDS_TRANSFER"))])
       # Outcome

(***************************************************************************)
(* C23: the second sentinel check of classify_project (lines 161-163) is   *)
(* unreachable: whenever _find_matching_type returns None for the type     *)
(* table the normalized text is not a sentinel, so every string that takes *)
(* that branch gets (UNCLASSIFIED, UNCLASSIFIED).  The 'UNCLASSIFIED'      *)
(* fallback of the default-subtype lookup (line 188) is never used either: *)
(* every type that reaches the lookup has a default subtype.               *)
(***************************************************************************)
C23_SecondCheckUnreachable ==
  /\ (pc = "type_returned" /\ returned = NoneKey) =>
       /\ IsString
       /\ Normalized \notin Sentinels
       /\ unmatched_result(project_detail) = UNCLASSIFIED_RESULT
  /\ (pc = "done" /\ IsString /\ truthy(project_detail) /\ project_type = NoneKey) =>
       /\ Normalized \notin Sentinels
       /\ result = UnclassifiedPair
  /\ (pc = "subtype_returned" /\ returned = NoneKey) =>
       project_type \in DOMAIN default_subtypes
  /\ (pc = "done" /\ project_type \in SubstantiveTypes) =>
       /\ project_subtype # "UNCLASSIFIED"
       /\ result[2] # UnclassifiedPair[2]

\* '사업없음회의비': a string with a sentinel inside it has taken the branch.
C23_Witness ==
  /\ Returned /\ IsString
  /\ project_type = NoneKey
  /\ returned = NoneKey
  /\ scanned = Len(PROJECT_TYPE_KEYWORDS)
  /\ \E s \in Sentinels \ {<<>>} : contains(s, Normalized)
  /\ result = UnclassifiedPair

(***************************************************************************)
(* C24: the subtype depends only on the subtype table of the selected      *)
(* type.  Two texts that are not sentinels and in which the same type      *)
(* keywords and the same keywords of the selected type's subtype table     *)
(* occur (as line 125 tests it) get the same pair, whatever keywords of    *)
(* other subtype tables and whatever other characters they contain.        *)
(***************************************************************************)
AllTypeKeywords == UNION {TypeKeywords(T) : T \in SubstantiveTypes}

SubtypeKeywords(T) ==
  UNION { {Subtypes(T)[k].keywords[j] : j \in 1..Len(Subtypes(T)[k].keywords)} :
          k \in 1..Len(Subtypes(T)) }

KeywordsIn(keywords, chars) ==
  {kw \in keywords : contains(lower(kw), strip(lower(chars)))}

\* The first type in priority order with a keyword in the text, if any.
SelectedType(chars) ==
  LET present == {k \in 1..Len(TypeOrder) :
                    KeywordsIn(TypeKeywords(TypeOrder[k]), chars) # {}}
  IN  IF present = {} THEN NoneKey ELSE TypeOrder[Earliest(present)]

SameKeywords(a, b) ==
  /\ KeywordsIn(AllTypeKeywords, a) = KeywordsIn(AllTypeKeywords, b)
  /\ SelectedType(a) # NoneKey =>
       KeywordsIn(SubtypeKeywords(SelectedType(a)), a)
         = KeywordsIn(SubtypeKeywords(SelectedType(a)), b)

\* C24: two non-sentinel texts with the same type keywords and the same
\* keywords of the selected type's subtype table get the same pair.
C24_OwnSubtypeTableOnly ==
  (pc = "done" /\ IsString /\ Normalized \notin Sentinels) =>
    \A other \in InputsOver(PairWords, MaxPairWords) :
      (/\ strip(lower(other.chars)) \notin Sentinels
       /\ SameKeywords(project_detail.chars, other.chars))
      => classify_project_of(other) = Outcome

\* '시스템시설' against '시스템': '시설' is a keyword of two other subtype tables.
C24_Witness ==
  /\ ReturnedType("SYSTEM_MGMT")
  /\ contains(<<49884, 49444>>, Normalized)
  /\ \E other \in InputsOver(PairWords, MaxPairWords) :
       /\ ~contains(<<49884, 49444>>, other.chars)
       /\ strip(lower(other.chars)) \notin Sentinels
       /\ SameKeywords(project_detail.chars, other.chars)
       /\ classify_project_of(other) = Outcome

(***************************************************************************)
(* C25: the match count of a subtype is the number of distinct keywords of *)
(* that subtype that occur in the text.  A keyword repeated in the text    *)
(* counts once; a keyword inside another keyword of the same subtype       *)
(* counts too: a text with '문서보안' scores at least 2 for SECURITY_MGMT   *)
(* ('보안' and '문서보안'), so SECURITY_MGMT is returned exactly when no     *)
(* earlier subtype scores as much and no later subtype scores more.        *)
(***************************************************************************)
DistinctKeywords(T, k) ==
  {Subtypes(T)[k].keywords[j] : j \in 1..Len(Subtypes(T)[k].keywords)}

DistinctCount(T, k) ==
  Cardinality({kw \in DistinctKeywords(T, k) : contains(lower(kw), Normalized)})

Largest(ns) == CHOOSE m \in ns : \A n \in ns : n <= m

SecurityIndex == IndexOf("SYSTEM_MGMT", "SECURITY_MGMT")

HasDocumentSecurity == IsString /\ contains(<<47928, 49436, 48372, 50504>>, Normalized)

\* C25: max_matches is the largest number of distinct keywords of a scanned
\* subtype that occur in the text; '문서보안' scores 2 for SECURITY_MGMT.
C25_CountsDistinctKeywords ==
  /\ (pc = "for_type_name" /\ ~check_priority) =>
       max_matches = Largest({0} \cup {DistinctCount(project_type, k) : k \in 1..scanned})
  /\ HasDocumentSecurity => DistinctCount("SYSTEM_MGMT", SecurityIndex) >= 2
  /\ (HasDocumentSecurity /\ ReturnedType("SYSTEM_MGMT")) =>
       (ReturnedSubtype("SECURITY_MGMT") <=>
          /\ \A k \in 1..(SecurityIndex - 1) :
               DistinctCount("SYSTEM_MGMT", k) < DistinctCount("SYSTEM_MGMT", SecurityIndex)
          /\ \A k \in (SecurityIndex + 1)..Len(Subtypes("SYSTEM_MGMT")) :
               DistinctCount("SYSTEM_MGMT", k) <= DistinctCount("SYSTEM_MGMT", SecurityIndex))

\* '문서보안시스템서버': SECURITY_MGMT scores 2 through one word and is returned
\* although INFRA_ESTABLISH has two keywords matched.
C25_Witness ==
  /\ HasDocumentSecurity
  /\ ReturnedSubtype("SECURITY_MGMT")
  /\ DistinctCount("SYSTEM_MGMT", SecurityIndex) = 2
  /\ DistinctCount("SYSTEM_MGMT", IndexOf("SYSTEM_MGMT", "INFRA_ESTABLISH")) = 2

(***************************************************************************)
(* C26: the SYSTEM_MGMT type keyword '기능개선' is shadowed by the           *)
(* SPECIAL_PROJECT keyword '개선' inside it.  Every text with '기능개선' is   *)
(* classified DIGITALIZATION, RECORDS_MGMT or SPECIAL_PROJECT, and no text *)
(* owes its classification to the keyword: the type table without it       *)
(* gives every text the same pair.                                         *)
(***************************************************************************)
FunctionImprovement == <<44592, 45733, 44060, 49440>>

Improvement == <<44060, 49440>>

IsNotFunctionImprovement(kw) == kw # FunctionImprovement

TypesWithoutFunctionImprovement ==
  [k \in 1..Len(PROJECT_TYPE_KEYWORDS) |->
     [name     |-> PROJECT_TYPE_KEYWORDS[k].name,
      keywords |-> SelectSeq(PROJECT_TYPE_KEYWORDS[k].keywords, IsNotFunctionImprovement)]]

\* C26: a text with '기능개선' is classified DIGITALIZATION, RECORDS_MGMT or
\* SPECIAL_PROJECT, and the keyword never decides a classification.
C26_FunctionImprovementShadowed ==
  /\ FunctionImprovement \in TypeKeywords("SYSTEM_MGMT")
  /\ TypesWithoutFunctionImprovement # PROJECT_TYPE_KEYWORDS
  /\ (pc = "done" /\ IsString /\ contains(FunctionImprovement, Normalized)) =>
       /\ contains(Improvement, Normalized)
       /\ \/ ReturnedType("DIGITALIZATION")
          \/ ReturnedType("RECORDS_MGMT")
          \/ ReturnedType("SPECIAL_PROJECT")
       /\ ~ReturnedType("SYSTEM_MGMT")
  /\ pc = "done" =>
       classify_project_with(project_detail, TypesWithoutFunctionImprovement,
                             PROJECT_SUBTYPE_KEYWORDS) = Outcome

\* '기능개선시스템' or '시스템기능개선': two SYSTEM_MGMT keywords, and yet
\* SPECIAL_PROJECT.
C26_Witness ==
  /\ IsString
  /\ contains(FunctionImprovement, Normalized)
  /\ contains(<<49884, 49828, 53596>>, Normalized)
  /\ ReturnedType("SPECIAL_PROJECT")

(***************************************************************************)
(* C27: subtype keywords that are keywords of an earlier type never        *)
(* contribute: no text classified SYSTEM_MGMT contains '구축', none         *)
(* classified RECORDS_MGMT contains '메타데이터', none classified            *)
(* PRESERVATION contains '장비', and the subtype tables without these three *)
(* entries give every text the same pair.                                  *)
(***************************************************************************)
Construction == <<44396, 52629>>

Metadata == <<47700, 53440, 45936, 51060, 53552>>

Equipment == <<51109, 48708>>

IndexOfType(T) == CHOOSE k \in 1..Len(TypeOrder) : TypeOrder[k] = T

ShadowedSubtypeKeyword ==
  [ DIGITALIZATION  |-> <<>>,
    RECORDS_MGMT    |-> Metadata,
    SPECIAL_PROJECT |-> <<>>,
    SYSTEM_MGMT     |-> Construction,
    PRESERVATION    |-> Equipment ]

IsNotConstruction(kw) == kw # Construction

IsNotMetadata(kw) == kw # Metadata

IsNotEquipment(kw) == kw # Equipment

WithoutShadowed(T, keywords) ==
  IF T = "SYSTEM_MGMT" THEN SelectSeq(keywords, IsNotConstruction)
  ELSE IF T = "RECORDS_MGMT" THEN SelectSeq(keywords, IsNotMetadata)
  ELSE IF T = "PRESERVATION" THEN SelectSeq(keywords, IsNotEquipment)
  ELSE keywords

SubtypesWithoutShadowed ==
  [T \in DOMAIN PROJECT_SUBTYPE_KEYWORDS |->
     [k \in 1..Len(PROJECT_SUBTYPE_KEYWORDS[T]) |->
        [name     |-> PROJECT_SUBTYPE_KEYWORDS[T][k].name,
         keywords |-> WithoutShadowed(T, PROJECT_SUBTYPE_KEYWORDS[T][k].keywords)]]]

\* C27: '구축', '메타데이터' and '장비' never occur in a text of the type whose
\* subtype table lists them, and never decide a classification.
C27_ShadowedSubtypeKeywords ==
  /\ \A T \in {"RECORDS_MGMT", "SYSTEM_MGMT", "PRESERVATION"} :
       /\ ShadowedSubtypeKeyword[T] \in SubtypeKeywords(T)
       /\ SubtypesWithoutShadowed[T] # PROJECT_SUBTYPE_KEYWORDS[T]
       /\ \E k \in 1..(IndexOfType(T) - 1) :
            ShadowedSubtypeKeyword[T] \in TypeKeywords(TypeOrder[k])
  /\ (Returned /\ IsString) =>
       \A T \in {"RECORDS_MGMT", "SYSTEM_MGMT", "PRESERVATION"} :
         ReturnedType(T) => ~contains(ShadowedSubtypeKeyword[T], Normalized)
  /\ pc = "done" =>
       classify_project_with(project_detail, PROJECT_TYPE_KEYWORDS,
                             SubtypesWithoutShadowed) = Outcome

\* '시스템구축': the INFRA_ESTABLISH keyword is there, the type is DIGITALIZATION.
C27_Witness ==
  /\ IsString
  /\ contains(Construction, Normalized)
  /\ contains(<<49884, 49828, 53596>>, Normalized)
  /\ ReturnedType("DIGITALIZATION")

(***************************************************************************)
(* C28: get_filtered_data returns exactly the rows of its input that       *)
(* satisfy every filter given (region among selected_regions, project_type *)
(* among selected_types, min <= budget_amount <= max with both bounds      *)
(* included), in the order of the input.  A filter that is None or empty   *)
(* restricts nothing, and the input table is never modified.               *)
(***************************************************************************)
Elements(v) == {v.items[k] : k \in 1..Len(v.items)}

NotGiven(v) == v = None \/ v.items = <<>>

IsRange(v) == v # None /\ Len(v.items) = 2

Satisfies(r) ==
  /\ ~NotGiven(selected_regions) => r.region \in Elements(selected_regions)
  /\ ~NotGiven(selected_types) => r.project_type \in Elements(selected_types)
  /\ IsRange(budget_range) =>
       /\ r.budget_amount # NaN
       /\ budget_range.items[1] <= r.budget_amount.value
       /\ r.budget_amount.value <= budget_range.items[2]

Kept == {i \in 1..Len(filter_df) : Satisfies(filter_df[i])}

\* The j-th smallest index of Kept.
NthKept(j) == CHOOSE i \in Kept : Cardinality({x \in Kept : x <= i}) = j

C28_FilterReturned ==
  fd_pc = "done" =>
    /\ fd_ret = [j \in 1..Cardinality(Kept) |-> filter_df[NthKept(j)]]
    /\ (NotGiven(selected_regions) /\ NotGiven(selected_types) /\ NotGiven(budget_range))
         => fd_ret = filter_df

\* C28: the table returned is the input's matching rows in order, at every
\* return, and no step changes the input table.
C28_ExactlyTheMatchingRows ==
  []C28_FilterReturned /\ [][filter_df' = filter_df]_vars

\* A row whose amount equals the upper bound is kept, another row is dropped,
\* with a region filter given and the type filter empty.
C28_Witness ==
  /\ fd_pc = "done"
  /\ IsRange(budget_range)
  /\ ~NotGiven(selected_regions)
  /\ selected_types = List(<<>>)
  /\ \E k \in 1..Len(fd_ret) :
       /\ fd_ret[k].budget_amount # NaN
       /\ fd_ret[k].budget_amount.value = budget_range.items[2]
  /\ 0 < Len(fd_ret)
  /\ Len(fd_ret) < Len(filter_df)

(***************************************************************************)
(* C29: as claimed, the authentication gate: in every reachable state of   *)
(* the session, whatever pages were visited and whatever logins, logouts   *)
(* and reruns happened, the session is authenticated, and app.py shows its *)
(* main content, only if a successful verify_login set the flag, that is   *)
(* only with login_time and username set by a login.  The code does not    *)
(* satisfy it: page 1 sets the flag of a fresh session without any login.  *)
(***************************************************************************)
Authenticated ==
  "authenticated" \in DOMAIN session_state /\ session_state.authenticated

LoginRecorded ==
  /\ "login_time" \in DOMAIN session_state
  /\ "username" \in DOMAIN session_state
  /\ session_state.login_time # None
  /\ session_state.username # None
  /\ session_state.username.chars \in DOMAIN secrets.users

MainShown == "main" \in rendered

\* C29: the session is authenticated, or the main content shown, only with
\* the login_time and username of a successful login.
C29_AuthenticatedOnlyByLogin == (Authenticated \/ MainShown) => LoginRecorded

\* app.py shows the main content to a session in which nobody logged in.
C29_Witness ==
  /\ MainShown
  /\ Authenticated
  /\ session_state.login_time = None
  /\ session_state.username = None

(***************************************************************************)
(* C30: a login session lasts 12 hours.  A run of app.py at most 12 hours  *)
(* after the recorded login_time keeps the session (authenticated,         *)
(* login_time and username unchanged) and shows the main content; the      *)
(* first run more than 12 hours after it sets authenticated to False and   *)
(* login_time and username to None and shows the login page, not the main  *)
(* content; and a session that has its flag reset becomes authenticated    *)
(* again only by a successful login.                                       *)
(***************************************************************************)
LoginTimeRecorded ==
  "login_time" \in DOMAIN session_state /\ session_state.login_time # None

HoursSinceLogin == now - session_state.login_time.hour

FlagReset ==
  "authenticated" \in DOMAIN session_state /\ ~session_state.authenticated

RunKeepsOrExpires ==
  (run_app /\ Authenticated /\ LoginTimeRecorded) =>
    IF HoursSinceLogin <= 12
    THEN /\ session_state' = session_state
         /\ rendered' = {"sidebar", "main"}
    ELSE /\ session_state'.authenticated = FALSE
         /\ session_state'.login_time = None
         /\ session_state'.username = None
         /\ "login_form" \in rendered'
         /\ "main" \notin rendered'

OnlyLoginAuthenticates ==
  (FlagReset /\ Authenticated') =>
    /\ submit_login
    /\ event' = "login"
    /\ session_state'.login_time = Datetime(now)
    /\ session_state'.username # None
    /\ verify_login(session_state'.username.chars, <<49, 50, 51, 52, 53, 54>>)

\* C30: every run keeps a session of at most 12 hours and expires an older
\* one, and only a successful login sets a reset flag again.
C30_TwelveHourSession == [][RunKeepsOrExpires /\ OnlyLoginAuthenticates]_vars

\* A run has just expired a session that a login had opened more than 12
\* hours before.
C30_Witness ==
  /\ event = "run"
  /\ "warning" \in rendered
  /\ "login_form" \in rendered
  /\ FlagReset
  /\ session_state.login_time = None
  /\ now > 12

====
